---- MODULE Spec2Model ----
(***************************************************************************)
(* A model of the Fermi-surface core of jakescally/reciprocal:             *)
(*   lib/kpointSymmetry.ts       symmetry expansion of irreducible k-points *)
(*   lib/gridInterpolation.ts    energy grids and the Fermi-level shift     *)
(*   lib/wien2kFermiParser.ts    the generic WIEN2k parsers                 *)
(*   lib/wien2kFermiGrid.ts      the Xcrysden-style grid builder            *)
(*                                                                         *)
(* Numbers.  Fractional k-coordinates are fixed-point: the integer n stands *)
(* for n/One of a reciprocal lattice vector, so 0.5 is Half and 1.0 is One. *)
(* Energies are fixed-point too; a value kept in a Float32Array is a        *)
(* multiple of F32Step, and a store into one rounds to the nearest such.    *)
(* Sequences are 1-based; an index the code returns (originalIndex, a band  *)
(* index) keeps the code's 0-based value.                                   *)
(***************************************************************************)
EXTENDS Integers, Sequences, FiniteSets, TLC

VARIABLES
  \* ---- expandToFullBZ (kpointSymmetry.ts)
  irreducibleKPoints,   \* argument: the irreducible k-points
  symmetryOps,          \* argument: the symmetry operations
  tolerance,            \* argument: the tolerance
  expandedPoints,       \* the returned list
  expandPc,             \* "ready" before the call, "done" after it
  \* ---- wrapToBZ (kpointSymmetry.ts)
  wrapIn,               \* argument k
  wrapOut,              \* wrapToBZ(k)
  wrapOut2,             \* wrapToBZ(wrapToBZ(k))
  wrapPc,               \* "ready", "once", "twice"
  \* ---- shiftToFermiLevel (gridInterpolation.ts)
  grid,                 \* argument: an EnergyGrid
  shifted,              \* shiftToFermiLevel(grid)
  shifted2,             \* shiftToFermiLevel(shiftToFermiLevel(grid))
  shiftPc,              \* "ready", "once", "twice"
  \* ---- the generic variant (wien2kFermiParser.ts)
  klist,                \* content of case.klist, a list of lines
  energy,               \* content of case.energy
  scf,                  \* content of case.scf
  struct,               \* content of case.struct
  spinOrbit,            \* argument isSOC of parseWien2kFermiData
  structResult,         \* parseStruct(struct)
  rawData,              \* parseWien2kFermiData(klist, energy, scf, struct, ...)
  crossingBands,        \* findFermiCrossingBands(rawData)
  genericPc,            \* "ready", "parsed", "done"
  \* ---- the Xcrysden-style variant (wien2kFermiGrid.ts)
  output1,              \* content of case.output1
  output2,              \* content of case.output2
  outputkgen,           \* content of case.outputkgen
  output1Data,          \* parseOutput1(output1)
  kgenResult,           \* parseOutputkgen(outputkgen), or the error it throws
  bandGrid,             \* buildWien2kBandGrid(output1, output2, outputkgen, ...)
  crossingFromGrid,     \* findFermiCrossingBandsFromGrid(...)
  gridPc,               \* "ready", "parsed", "built", "done"
  \* ---- buildEnergyGrid (gridInterpolation.ts)
  buildArgs,            \* the arguments, a record; null when not called
  builtGrid,            \* buildEnergyGrid(...)
  \* ---- sampleGridEnergy (gridInterpolation.ts)
  sampleArgs,           \* the arguments: grid, bandArrayIndex and k
  sampleOut,            \* sampleGridEnergy(...)
  \* ---- findInterpolationCube (kpointSymmetry.ts)
  cubeArgs,             \* the arguments: k, the k-points of the map, gridSize
  cubeOut,              \* findInterpolationCube(...)
  \* ---- parseFermiFromScf and parseFermiFromOutput2 called on their own
  fermiArgs,            \* the contents of case.scf and case.output2
  fermiFromScf,         \* <<parseFermiFromScf(scf)>>, <<>> before the call
  fermiFromOutput2,     \* <<parseFermiFromOutput2(output2)>>, <<>> before the call
  \* ---- buildKPointLookupMap called on its own (kpointSymmetry.ts)
  lookupArgs,           \* the arguments: expandedKPoints and gridSize
  lookupOut,            \* the Map, as a function from keys to k-points
  \* ---- getGridValue called on its own (gridInterpolation.ts)
  valueArgs,            \* the arguments: grid, band, (ix, iy, iz) and the periods (a, b, c)
  valueOut,             \* what the call at (ix, iy, iz) read
  valueMoved,           \* what the call at (ix + a*nx, iy + b*ny, iz + c*nz) read
  \* ---- shiftToFermiLevel on buffers (gridInterpolation.ts)
  heap,                 \* the Float32Array buffers by address
  heapGrid,             \* the argument: an EnergyGrid whose data are addresses
  heapShifted,          \* the returned EnergyGrid
  \* ---- FermiSurfacePage (FermiSurfacePage.tsx)
  stored,               \* the backend: of every surface created its files and whether it is held
  fermiSurfaces,        \* state: the listed surfaces
  selectedId,           \* state: the selected surface, or NoId
  pageRawData,          \* state rawData: a Wien2kBandGrid or null
  pageEnergyGrid,       \* state energyGrid: the shifted grid or null
  pageCrossingBands,    \* state crossingBands
  enabledBands,         \* state enabledBands
  isLoading,            \* state isLoading
  isProcessing,         \* state isProcessing
  showImportPanel,      \* state showImportPanel
  error,                \* state error: a message or null
  pending,              \* the backend calls in flight, with what their closures hold
  started               \* how many backend calls were started

expandVars == <<irreducibleKPoints, symmetryOps, tolerance, expandedPoints, expandPc>>
wrapVars == <<wrapIn, wrapOut, wrapOut2, wrapPc>>
shiftVars == <<grid, shifted, shifted2, shiftPc>>
genericVars == <<klist, energy, scf, struct, spinOrbit, structResult, rawData, crossingBands, genericPc>>
gridPathVars ==
  <<output1, output2, outputkgen, output1Data, kgenResult, bandGrid, crossingFromGrid, gridPc>>
buildVars == <<buildArgs, builtGrid>>
sampleVars == <<sampleArgs, sampleOut>>
cubeVars == <<cubeArgs, cubeOut>>
interpVars == <<buildVars, sampleVars, cubeVars>>
fermiVars == <<fermiArgs, fermiFromScf, fermiFromOutput2>>
lookupVars == <<lookupArgs, lookupOut>>
valueVars == <<valueArgs, valueOut, valueMoved>>
heapVars == <<heap, heapGrid, heapShifted>>
pageVars ==
  <<stored, fermiSurfaces, selectedId, pageRawData, pageEnergyGrid, pageCrossingBands,
    enabledBands, isLoading, isProcessing, showImportPanel, error, pending, started>>
lateVars == <<lookupVars, valueVars, heapVars, pageVars>>
vars ==
  <<expandVars, wrapVars, shiftVars, genericVars, gridPathVars, interpVars, fermiVars, lateVars>>

allButExpand == <<wrapVars, shiftVars, genericVars, gridPathVars, interpVars, fermiVars,
  lateVars>>
allButWrap == <<expandVars, shiftVars, genericVars, gridPathVars, interpVars, fermiVars,
  lateVars>>
allButShift == <<expandVars, wrapVars, genericVars, gridPathVars, interpVars, fermiVars,
  lateVars>>
allButGeneric == <<expandVars, wrapVars, shiftVars, gridPathVars, interpVars, fermiVars,
  lateVars>>
allButGridPath == <<expandVars, wrapVars, shiftVars, genericVars, interpVars, fermiVars,
  lateVars>>
allButInterp == <<expandVars, wrapVars, shiftVars, genericVars, gridPathVars, fermiVars,
  lateVars>>
allButLate ==
  <<expandVars, wrapVars, shiftVars, genericVars, gridPathVars, interpVars, fermiVars>>
allButFermi == <<expandVars, wrapVars, shiftVars, genericVars, gridPathVars, interpVars,
  lateVars>>

Null == [null |-> TRUE]

Abs(x) == IF x < 0 THEN -x ELSE x
Min2(a, b) == IF a < b THEN a ELSE b

(***************************************************************************)
(* Fixed-point k-coordinates.                                              *)
(***************************************************************************)
\* 0.5 in grid units (kpointSymmetry.ts:37); the unit is 1/(2*Half).
Half == 2
\* 1.0 in grid units.
One == 2 * Half

\* Largest number of irreducible k-points in an input list.
MaxK == 2
\* Largest |coordinate| handed to wrapToBZ on its own, in grid units.
MaxCoord == 6

(***************************************************************************)
(* kpointSymmetry.ts                                                       *)
(***************************************************************************)
Coord(x, y, z) == [kx |-> x, ky |-> y, kz |-> z]

\* The mutant multiplies by the transpose of R.
ApplySymmetryTransposed(k, symOp) ==
  LET R == symOp.rotation IN
  [kx |-> R[1][1] * k.kx + R[2][1] * k.ky + R[3][1] * k.kz,
   ky |-> R[1][2] * k.kx + R[2][2] * k.ky + R[3][2] * k.kz,
   kz |-> R[1][3] * k.kx + R[2][3] * k.ky + R[3][3] * k.kz]

\* k' = R * k; the translation is not used.
applySymmetryToKPoint(k, symOp) ==
  LET R == symOp.rotation IN
  [kx |-> R[1][1] * k.kx + R[1][2] * k.ky + R[1][3] * k.kz,
   ky |-> R[2][1] * k.kx + R[2][2] * k.ky + R[2][3] * k.kz,
   kz |-> R[3][1] * k.kx + R[3][2] * k.ky + R[3][3] * k.kz]

\* while (result >= 0.5) result -= 1.0;
RECURSIVE WrapDown(_)
WrapDown(x) == IF x >= Half THEN WrapDown(x - One) ELSE x

\* while (result < -0.5) result += 1.0;
RECURSIVE WrapUp(_)
WrapUp(x) == IF x < -Half THEN WrapUp(x + One) ELSE x

\* The mutant's first loop tests result > 0.5, so +0.5 is left alone.
RECURSIVE WrapDownStrict(_)
WrapDownStrict(x) == IF x > Half THEN WrapDownStrict(x - One) ELSE x
WrapClosed(x) == WrapUp(WrapDownStrict(x))

\* The mutant wraps into [0, 1) instead of [-0.5, 0.5).
RECURSIVE WrapDownUnit(_)
WrapDownUnit(x) == IF x >= One THEN WrapDownUnit(x - One) ELSE x
RECURSIVE WrapUpUnit(_)
WrapUpUnit(x) == IF x < 0 THEN WrapUpUnit(x + One) ELSE x
WrapUnitCell(x) == WrapUpUnit(WrapDownUnit(x))

\* const wrap = (x) => { ... }: the two loops, one after the other.
wrap(x) == WrapUp(WrapDown(x))

wrapToBZ(k) == [kx |-> wrap(k.kx), ky |-> wrap(k.ky), kz |-> wrap(k.kz)]

\* The mutant compares the direct distance only, without the periodic image.
KPointsEquivalentDirect(k1, k2, tol) ==
  LET w1 == wrapToBZ(k1)
      w2 == wrapToBZ(k2)
  IN  /\ Abs(w1.kx - w2.kx) < tol
      /\ Abs(w1.ky - w2.ky) < tol
      /\ Abs(w1.kz - w2.kz) < tol

kPointsEquivalent(k1, k2, tol) ==
  LET w1 == wrapToBZ(k1)
      w2 == wrapToBZ(k2)
      dx == Abs(w1.kx - w2.kx)
      dy == Abs(w1.ky - w2.ky)
      dz == Abs(w1.kz - w2.kz)
      dxPeriodic == Min2(dx, One - dx)
      dyPeriodic == Min2(dy, One - dy)
      dzPeriodic == Min2(dz, One - dz)
  IN  dxPeriodic < tol /\ dyPeriodic < tol /\ dzPeriodic < tol

\* The mutant records the index of the next irreducible point and shares the
\* first point's energies.
NewExpandedPointWrongOrigin(wrappedK, kps, origIdx) ==
  [kx |-> wrappedK.kx, ky |-> wrappedK.ky, kz |-> wrappedK.kz,
   weight |-> 1,
   energies |-> kps[1].energies,
   originalIndex |-> origIdx]

\* The object pushed onto expandedPoints; origIdx is the 1-based position
\* of kp, the stored originalIndex the code's 0-based one.
NewExpandedPoint(wrappedK, kps, origIdx) ==
  [kx |-> wrappedK.kx, ky |-> wrappedK.ky, kz |-> wrappedK.kz,
   weight |-> 1,
   energies |-> kps[origIdx].energies,
   originalIndex |-> origIdx - 1]

\* for (const seen of seenPoints) if (kPointsEquivalent(...)) isDuplicate = true
IsDuplicate(wrappedK, seenPoints, tol) ==
  \E i \in 1..Len(seenPoints) : kPointsEquivalent(wrappedK, seenPoints[i], tol)

\* The two nested loops of expandToFullBZ, from (origIdx, s) on, with the
\* lists built so far.
RECURSIVE ExpandLoop(_, _, _, _, _, _, _)
ExpandLoop(kps, ops, tol, origIdx, s, expanded, seenPoints) ==
  IF origIdx > Len(kps) THEN expanded
  ELSE IF s > Len(ops) THEN ExpandLoop(kps, ops, tol, origIdx + 1, 1, expanded, seenPoints)
  ELSE
    LET rotatedK == applySymmetryToKPoint(kps[origIdx], ops[s])
        wrappedK == wrapToBZ(rotatedK)
    IN  IF IsDuplicate(wrappedK, seenPoints, tol)
        THEN ExpandLoop(kps, ops, tol, origIdx, s + 1, expanded, seenPoints)
        ELSE ExpandLoop(kps, ops, tol, origIdx, s + 1,
                        Append(expanded, NewExpandedPoint(wrappedK, kps, origIdx)),
                        Append(seenPoints, wrappedK))

expandToFullBZ(kps, ops, tol) == ExpandLoop(kps, ops, tol, 1, 1, <<>>, <<>>)

(***************************************************************************)
(* Inputs of the expansion.                                                *)
(***************************************************************************)
SymOp(r) == [rotation |-> r, translation |-> <<0, 0, 0>>]
IdentityOp == SymOp(<< <<1, 0, 0>>, <<0, 1, 0>>, <<0, 0, 1>> >>)
InversionOp == SymOp(<< <<-1, 0, 0>>, <<0, -1, 0>>, <<0, 0, -1>> >>)
\* A quarter turn about z: (x, y, z) -> (-y, x, z).
C4zOp == SymOp(<< <<0, -1, 0>>, <<1, 0, 0>>, <<0, 0, 1>> >>)

\* The operation lists tried: empty, with and without the identity, and the
\* identity first, last and in the middle.
SymmetryOpLists ==
  { <<>>, <<IdentityOp>>, <<InversionOp>>,
    <<IdentityOp, InversionOp>>, <<InversionOp, IdentityOp>>,
    <<IdentityOp, C4zOp>>, <<C4zOp, IdentityOp>>, <<C4zOp, InversionOp>>,
    <<InversionOp, IdentityOp, C4zOp>> }

IrrKPoint(x, y, z, w, e) == [kx |-> x, ky |-> y, kz |-> z, weight |-> w, energies |-> e]

\* Irreducible k-points as parseKlist produces them (component / div, so a
\* coordinate of 0.5 or more occurs), each with energies of its own.
KPointPool ==
  { IrrKPoint(0, 0, 0, 1, <<-7, 3>>),
    IrrKPoint(1, 0, 0, 6, <<-5, 4>>),
    IrrKPoint(-1, 0, 0, 6, <<-4, 5, 9>>),
    IrrKPoint(0, 1, 0, 6, <<-3>>),
    IrrKPoint(Half, 0, 0, 3, <<-2, 6>>),
    IrrKPoint(-Half, 0, 0, 3, <<-1, 7>>),
    IrrKPoint(1, 1, Half, 8, <<1, 8>>),
    IrrKPoint(Half + 1, 1, 0, 8, <<>>),
    IrrKPoint(0, 0, 1, 2, <<2, 2>>) }

RECURSIVE SeqsUpTo(_, _)
SeqsUpTo(S, n) ==
  IF n = 0 THEN { <<>> }
  ELSE LET shorter == SeqsUpTo(S, n - 1)
       IN  shorter \cup { Append(q, x) : q \in { r \in shorter : Len(r) = n - 1 }, x \in S }

\* 0: nothing is equivalent; 1: below the grid spacing, as the default 1e-6
\* is; 2: wider than the grid spacing.
Tolerances == {0, 1, 2}

ExpandIdle ==
  /\ irreducibleKPoints = <<>>
  /\ symmetryOps = <<>>
  /\ tolerance = 1
  /\ expandedPoints = <<>>
  /\ expandPc = "idle"

ExpandInit ==
  /\ irreducibleKPoints \in SeqsUpTo(KPointPool, MaxK)
  /\ symmetryOps \in SymmetryOpLists
  /\ tolerance \in Tolerances
  /\ expandedPoints = <<>>
  /\ expandPc = "ready"

CallExpandToFullBZ ==
  /\ expandPc = "ready"
  /\ expandedPoints' = expandToFullBZ(irreducibleKPoints, symmetryOps, tolerance)
  /\ expandPc' = "done"
  /\ UNCHANGED <<irreducibleKPoints, symmetryOps, tolerance>>
  /\ UNCHANGED allButExpand

ExpandNext == CallExpandToFullBZ

(***************************************************************************)
(* wrapToBZ on its own.                                                    *)
(***************************************************************************)
WrapIdle ==
  /\ wrapIn = Coord(0, 0, 0)
  /\ wrapOut = Null
  /\ wrapOut2 = Null
  /\ wrapPc = "idle"

WrapInit ==
  /\ wrapIn \in [kx : -MaxCoord..MaxCoord, ky : -MaxCoord..MaxCoord, kz : -MaxCoord..MaxCoord]
  /\ wrapOut = Null
  /\ wrapOut2 = Null
  /\ wrapPc = "ready"

CallWrapToBZ ==
  /\ wrapPc = "ready"
  /\ wrapOut' = wrapToBZ(wrapIn)
  /\ wrapPc' = "once"
  /\ UNCHANGED <<wrapIn, wrapOut2>>
  /\ UNCHANGED allButWrap

CallWrapToBZAgain ==
  /\ wrapPc = "once"
  /\ wrapOut2' = wrapToBZ(wrapOut)
  /\ wrapPc' = "twice"
  /\ UNCHANGED <<wrapIn, wrapOut>>
  /\ UNCHANGED allButWrap

WrapNext == CallWrapToBZ \/ CallWrapToBZAgain

(***************************************************************************)
(* gridInterpolation.ts: EnergyGrid and shiftToFermiLevel                  *)
(***************************************************************************)
\* Spacing of the values a Float32Array element can hold, in the unit of the
\* model's energies: a double has values in between.
F32Step == 4

\* Largest number of bands of an input grid.
MaxBands == 2

\* The mutant truncates toward minus infinity instead of rounding.
FroundDown(x) == F32Step * (x \div F32Step)

\* A store into a Float32Array: round to the nearest representable value,
\* ties to the even one.
Fround(x) ==
  LET q == x \div F32Step
      r == x % F32Step
  IN  IF 2 * r < F32Step THEN F32Step * q
      ELSE IF 2 * r > F32Step THEN F32Step * (q + 1)
      ELSE IF q % 2 = 0 THEN F32Step * q
      ELSE F32Step * (q + 1)

EnergyGrid(nx, ny, nz, data, fermiEnergy) ==
  [nx |-> nx, ny |-> ny, nz |-> nz, data |-> data, fermiEnergy |-> fermiEnergy]

\* The mutant spreads the grid and replaces its data only: fermiEnergy stays.
ShiftKeepsFermiEnergy(g) ==
  [g EXCEPT !.data = [b \in 1..Len(g.data) |->
                        [i \in 1..Len(g.data[b]) |-> Fround(g.data[b][i] - g.fermiEnergy)]]]

\* The mutant adds the Fermi energy.
ShiftAddsFermiEnergy(g) ==
  [g EXCEPT !.data = [b \in 1..Len(g.data) |->
                        [i \in 1..Len(g.data[b]) |-> Fround(g.data[b][i] + g.fermiEnergy)]],
            !.fermiEnergy = 0]

\* { ...grid, data: newData, fermiEnergy: 0 }, each newData[b] a new
\* Float32Array of bandData.length elements.
shiftToFermiLevel(g) ==
  [g EXCEPT !.data = [b \in 1..Len(g.data) |->
                        [i \in 1..Len(g.data[b]) |-> Fround(g.data[b][i] - g.fermiEnergy)]],
            !.fermiEnergy = 0]

\* Grid dimensions tried.
GridDims == { <<1, 1, 1>>, <<2, 1, 1>>, <<1, 2, 1>>, <<1, 1, 2>> }
\* Values a Float32Array cell holds (0 is the value of an unfilled cell).
CellValues == { -F32Step, 0, F32Step }
\* Fermi energies, doubles: parseFloat(...) * RY_TO_EV.
FermiEnergies == { -3, 0, 1, 2, 3, F32Step, F32Step + 1 }

\* Float32Arrays of length n with cell values.
Float32Arrays(n) == [1..n -> CellValues]

ShiftIdle ==
  /\ grid = Null
  /\ shifted = Null
  /\ shifted2 = Null
  /\ shiftPc = "idle"

\* A grid as buildWien2kBandGrid returns it: every band a Float32Array of
\* nx * ny * nz cells, the Fermi energy a double.
ShiftInit ==
  /\ \E d \in GridDims, nb \in 0..MaxBands, fe \in FermiEnergies :
       \E data \in [1..nb -> Float32Arrays(d[1] * d[2] * d[3])] :
         grid = EnergyGrid(d[1], d[2], d[3], data, fe)
  /\ shifted = Null
  /\ shifted2 = Null
  /\ shiftPc = "ready"

CallShiftToFermiLevel ==
  /\ shiftPc = "ready"
  /\ shifted' = shiftToFermiLevel(grid)
  /\ shiftPc' = "once"
  /\ UNCHANGED <<grid, shifted2>>
  /\ UNCHANGED allButShift

CallShiftToFermiLevelAgain ==
  /\ shiftPc = "once"
  /\ shifted2' = shiftToFermiLevel(shifted)
  /\ shiftPc' = "twice"
  /\ UNCHANGED <<grid, shifted>>
  /\ UNCHANGED allButShift

ShiftNext == CallShiftToFermiLevel \/ CallShiftToFermiLevelAgain

(***************************************************************************)
(* Text.  A file's content is the list of its lines (content.split('\n')). *)
(* A line is a record.  Where the code splits a line into tokens            *)
(* (line.trim().split(/\s+/)) the record has `parts`, the tokens, each a    *)
(* list of characters; a blank line has no parts.  Where the code only      *)
(* tests a line against a regular expression, the record has `kind` (which  *)
(* expression it matches) and the values the expression captures.           *)
(***************************************************************************)
\* JavaScript's NaN and Infinity, as integers no parsed number takes.
NaN == 999999
Infinity == 999998
IsNaN(v) == v = NaN
IsFinite(v) == v # NaN /\ v # Infinity /\ v # -Infinity

\* What a regular-expression capture of a natural number holds when the line
\* does not match.
NoMatch == -1

Digits == <<"0", "1", "2", "3", "4", "5", "6", "7", "8", "9">>
IsDigit(c) == \E d \in 1..10 : Digits[d] = c
DigitValue(c) == (CHOOSE d \in 1..10 : Digits[d] = c) - 1

\* The number the digits of tok from position p on spell, continuing acc,
\* and where they end.
RECURSIVE DigitsFrom(_, _, _)
DigitsFrom(tok, p, acc) ==
  IF p <= Len(tok) /\ IsDigit(tok[p])
  THEN DigitsFrom(tok, p + 1, 10 * acc + DigitValue(tok[p]))
  ELSE [value |-> acc, next |-> p]

HasSign(tok) == Len(tok) >= 1 /\ tok[1] \in {"-", "+"}
SignOf(tok) == IF Len(tok) >= 1 /\ tok[1] = "-" THEN -1 ELSE 1

\* parseInt(tok, 10): an optional sign and the leading digits; NaN without any.
ParseInt(tok) ==
  LET start == IF HasSign(tok) THEN 2 ELSE 1
  IN  IF start <= Len(tok) /\ IsDigit(tok[start])
      THEN SignOf(tok) * DigitsFrom(tok, start, 0).value
      ELSE NaN

\* Two decimals are kept of a parsed float: n stands for n / FloatScale.
FloatScale == 100

\* parseFloat(tok): sign, digits, and a fraction; NaN when no digit leads.
\* (The tokens of the model have at most two decimals and no exponent.)
ParseFloat(tok) ==
  LET start == IF HasSign(tok) THEN 2 ELSE 1
      whole == DigitsFrom(tok, start, 0)
      hasDot == whole.next <= Len(tok) /\ tok[whole.next] = "."
      d1 == whole.next + 1
      d2 == whole.next + 2
      tenths == IF hasDot /\ d1 <= Len(tok) /\ IsDigit(tok[d1]) THEN DigitValue(tok[d1]) ELSE 0
      hundredths == IF hasDot /\ d2 <= Len(tok) /\ IsDigit(tok[d1]) /\ IsDigit(tok[d2])
                    THEN DigitValue(tok[d2]) ELSE 0
      leadsWithDigit == start <= Len(tok) /\ IsDigit(tok[start])
      leadsWithDot == /\ start + 1 <= Len(tok) /\ tok[start] = "."
                      /\ IsDigit(tok[start + 1])
  IN  IF leadsWithDigit \/ leadsWithDot
      THEN SignOf(tok) * (whole.value * FloatScale + 10 * tenths + hundredths)
      ELSE NaN

\* parts.join(' ')
RECURSIVE JoinWithSpace(_)
JoinWithSpace(toks) ==
  IF toks = <<>> THEN <<>>
  ELSE IF Len(toks) = 1 THEN toks[1]
  ELSE toks[1] \o <<" ">> \o JoinWithSpace(Tail(toks))

\* line.trim().split(/\s+/): a blank line splits into one empty token.
SplitParts(line) == IF line.parts = <<>> THEN << <<>> >> ELSE line.parts

\* a * b and a / b on numbers that may be NaN.  A quotient is in grid units
\* (One per 1.0); the k-lists of the model divide without remainder.
Times(a, b) == IF IsNaN(a) \/ IsNaN(b) THEN NaN ELSE a * b
Quotient(a, b) ==
  IF IsNaN(a) \/ IsNaN(b) THEN NaN
  ELSE IF b = 0 THEN (IF a = 0 THEN NaN ELSE IF a > 0 THEN Infinity ELSE -Infinity)
  ELSE (a * One) \div b

(***************************************************************************)
(* wien2kFermiParser.ts                                                    *)
(***************************************************************************)
\* Rydberg to eV.  Energies in eV are counted in a unit RY_TO_EV times finer
\* than the unit of energies in Rydberg, so the conversion is exact.
RY_TO_EV == 3

KlistDefaultGridSize == 10
KlistDefaultTotal == 1000

\* One line of case.klist: parts, and what the two regular expressions applied
\* to the first k-point's line capture (divGrid from "div: ( n n n)", total
\* from "n k,"), NoMatch otherwise.
KlistStep(st, line) ==
  LET parts == line.parts IN
  IF parts = <<>> \/ parts = << <<"E", "N", "D">> >> THEN st
  ELSE IF Len(parts) < 6 THEN st
  ELSE
    LET index == ParseInt(parts[1])
        kxTimesDiv == ParseInt(parts[2])
        kyTimesDiv == ParseInt(parts[3])
        kzTimesDiv == ParseInt(parts[4])
        div == ParseInt(parts[5])
        weight == ParseFloat(parts[6])
    IN  IF IsNaN(index) \/ IsNaN(kxTimesDiv) \/ IsNaN(div) \/ IsNaN(weight) THEN st
        ELSE [kPoints |-> Append(st.kPoints,
                                 [kx |-> Quotient(kxTimesDiv, div),
                                  ky |-> Quotient(kyTimesDiv, div),
                                  kz |-> Quotient(kzTimesDiv, div),
                                  weight |-> weight]),
              gridSize |-> IF index = 1 /\ line.divGrid # NoMatch
                           THEN line.divGrid ELSE st.gridSize,
              totalKPoints |-> IF index = 1 /\ line.total # NoMatch
                               THEN line.total ELSE st.totalKPoints]

RECURSIVE KlistLoop(_, _, _)
KlistLoop(lines, p, st) ==
  IF p > Len(lines) THEN st ELSE KlistLoop(lines, p + 1, KlistStep(st, lines[p]))

parseKlist(content) ==
  KlistLoop(content, 1,
            [kPoints |-> <<>>, gridSize |-> KlistDefaultGridSize,
             totalKPoints |-> KlistDefaultTotal])

\* The band lines read after a k-point header at line p: the next numBands
\* lines, as far as the file goes; a line that is no band line is read and
\* dropped.
RECURSIVE BandEnergies(_, _, _)
BandEnergies(lines, from, to) ==
  IF from > to THEN <<>>
  ELSE IF lines[from].kind = "band"
       THEN <<Times(lines[from].energyRy, RY_TO_EV)>> \o BandEnergies(lines, from + 1, to)
       ELSE BandEnergies(lines, from + 1, to)

\* The while loop of parseEnergy from line p on.  A line of case.energy is a
\* k-point header (kHeaderMatch: kx, ky, kz, numBands, weight), a band line
\* (bandMatch: energyRy), a blank line or other text.
RECURSIVE EnergyLoop(_, _, _)
EnergyLoop(lines, p, kPoints) ==
  IF p > Len(lines) THEN kPoints
  ELSE IF lines[p].kind = "header"
  THEN LET last == Min2(p + lines[p].numBands, Len(lines))
           kp == [kx |-> lines[p].kx, ky |-> lines[p].ky, kz |-> lines[p].kz,
                  weight |-> lines[p].weight,
                  energies |-> BandEnergies(lines, p + 1, last)]
       IN  EnergyLoop(lines, last + 1, Append(kPoints, kp))
  ELSE EnergyLoop(lines, p + 1, kPoints)

\* i = 4 skips the four header lines of a spin-orbit file.
parseEnergy(content, isSOC) == EnergyLoop(content, IF isSOC THEN 5 ELSE 1, <<>>)

\* The mutant keeps the first matching line.
FirstFermi(lines, p, fermiEnergy) ==
  IF \E q \in p..Len(lines) : lines[q].kind = "fer"
  THEN lines[CHOOSE q \in p..Len(lines) :
               lines[q].kind = "fer" /\ \A r \in p..(q - 1) : lines[r].kind # "fer"].value
  ELSE fermiEnergy

\* The last line matching /:FER\s*:\s*F\s*E\s*R\s*M\s*I.*?=\s*([-\d.]+)/i
\* decides; 0 without any.
RECURSIVE LastFermi(_, _, _)
LastFermi(lines, p, fermiEnergy) ==
  IF p > Len(lines) THEN fermiEnergy
  ELSE LastFermi(lines, p + 1, IF lines[p].kind = "fer" THEN lines[p].value ELSE fermiEnergy)

parseFermiFromScf(content) == Times(LastFermi(content, 1, 0), RY_TO_EV)

\* An angle in radians: degrees * Math.PI / 180.
Radians(degrees) == [piOver180Times |-> degrees]

DefaultLattice ==
  [a |-> FloatScale, b |-> FloatScale, c |-> FloatScale,
   alpha |-> Radians(90 * FloatScale), beta |-> Radians(90 * FloatScale),
   gamma |-> Radians(90 * FloatScale)]

\* An optional minus sign and one digit at position p of str.
SignedDigitAt(str, p) ==
  IF p + 1 <= Len(str) /\ str[p] = "-" /\ IsDigit(str[p + 1])
  THEN [ok |-> TRUE, value |-> -DigitValue(str[p + 1]), next |-> p + 2]
  ELSE IF p <= Len(str) /\ IsDigit(str[p])
  THEN [ok |-> TRUE, value |-> DigitValue(str[p]), next |-> p + 1]
  ELSE [ok |-> FALSE, value |-> 0, next |-> p]

\* /([-]?\d)([-]?\d)([-]?\d)/ matched at position p: three signed digits in a
\* row, nothing between them.
RotMatchAt(str, p) ==
  LET g1 == SignedDigitAt(str, p)
      g2 == SignedDigitAt(str, g1.next)
      g3 == SignedDigitAt(str, g2.next)
  IN  [ok |-> g1.ok /\ g2.ok /\ g3.ok, r1 |-> g1.value, r2 |-> g2.value, r3 |-> g3.value]

NoRow == [found |-> FALSE, r1 |-> 0, r2 |-> 0, r3 |-> 0, t |-> 0]

parseSymmetryRow(line) ==
  LET parts == SplitParts(line)
      translation == ParseFloat(parts[Len(parts)])
      rotTokens == SubSeq(parts, 1, Len(parts) - 1)
      rotPart == JoinWithSpace(rotTokens)
      matchAt == { p \in 1..Len(rotPart) : RotMatchAt(rotPart, p).ok }
      rotParts == SelectSeq(rotTokens, LAMBDA tok : tok # <<>>)
  IN  IF matchAt # {}
      THEN LET m == RotMatchAt(rotPart, CHOOSE p \in matchAt : \A q \in matchAt : p <= q)
           IN  [found |-> TRUE, r1 |-> m.r1, r2 |-> m.r2, r3 |-> m.r3, t |-> translation]
      ELSE IF Len(rotParts) >= 3
      THEN [found |-> TRUE, r1 |-> ParseInt(rotParts[1]), r2 |-> ParseInt(rotParts[2]),
            r3 |-> ParseInt(rotParts[3]), t |-> translation]
      ELSE NoRow

\* The first line matching /(\d+)\s+NUMBER OF SYMMETRY OPERATIONS/i, 0 without
\* one.  A line of case.struct carries symCount, the number the expression
\* captures, NoMatch when the line does not match.
StructHeaderLine(lines) ==
  IF \E p \in 1..Len(lines) : lines[p].symCount # NoMatch
  THEN CHOOSE p \in 1..Len(lines) :
         /\ lines[p].symCount # NoMatch
         /\ \A q \in 1..(p - 1) : lines[q].symCount = NoMatch
  ELSE 0

\* Line 4 of the file, when the scan reaches it and it has six parts.
StructLattice(lines, headerLine) ==
  IF Len(lines) >= 4 /\ (headerLine = 0 \/ headerLine >= 4) /\ Len(SplitParts(lines[4])) >= 6
  THEN LET parts == SplitParts(lines[4])
       IN  [a |-> ParseFloat(parts[1]), b |-> ParseFloat(parts[2]), c |-> ParseFloat(parts[3]),
            alpha |-> Radians(ParseFloat(parts[4])), beta |-> Radians(ParseFloat(parts[5])),
            gamma |-> Radians(ParseFloat(parts[6]))]
  ELSE DefaultLattice

\* The operations from block s (0-based) on, the first row of the first block
\* at line symStart.
RECURSIVE StructOps(_, _, _, _)
StructOps(lines, symStart, numSymOps, s) ==
  LET base == symStart + 4 * s IN
  IF s >= numSymOps \/ base + 3 > Len(lines) THEN <<>>
  ELSE LET rows == [row \in 1..3 |-> parseSymmetryRow(lines[base + row - 1])]
           kept == SelectSeq(rows, LAMBDA r : r.found)
           rotation == [n \in 1..Len(kept) |-> <<kept[n].r1, kept[n].r2, kept[n].r3>>]
           translation == [n \in 1..Len(kept) |-> kept[n].t]
       IN  (IF Len(rotation) = 3
            THEN << [rotation |-> rotation, translation |-> translation] >>
            ELSE <<>>)
           \o StructOps(lines, symStart, numSymOps, s + 1)

\* parseStruct has no throw statement: it returns a result for every content.
parseStruct(content) ==
  LET headerLine == StructHeaderLine(content)
  IN  [symmetryOps |-> IF headerLine = 0 THEN <<>>
                       ELSE StructOps(content, headerLine + 1, content[headerLine].symCount, 0),
       latticeParams |-> StructLattice(content, headerLine)]

\* energyKPoints[index]?.energies || []
EnergiesAt(energyKPoints, index) ==
  IF index <= Len(energyKPoints) THEN energyKPoints[index].energies ELSE <<>>

parseWien2kFermiData(klistContent, energyContent, scfContent, structContent, caseName, isSOC) ==
  LET klistResult == parseKlist(klistContent)
      energyKPoints == parseEnergy(energyContent, isSOC)
      fermiEnergy == parseFermiFromScf(scfContent)
      parsedStruct == parseStruct(structContent)
      kPoints == [index \in 1..Len(klistResult.kPoints) |->
                    [kx |-> klistResult.kPoints[index].kx,
                     ky |-> klistResult.kPoints[index].ky,
                     kz |-> klistResult.kPoints[index].kz,
                     weight |-> klistResult.kPoints[index].weight,
                     energies |-> EnergiesAt(energyKPoints, index)]]
  IN  [fermiEnergy |-> fermiEnergy,
       kPoints |-> kPoints,
       numBands |-> IF Len(kPoints) > 0 THEN Len(kPoints[1].energies) ELSE 0,
       symmetryOps |-> parsedStruct.symmetryOps,
       latticeParams |-> parsedStruct.latticeParams,
       gridSize |-> klistResult.gridSize,
       caseName |-> caseName]

\* a > b and a < b in JavaScript: false when either is NaN.
Above(a, b) == ~IsNaN(a) /\ ~IsNaN(b) /\ a > b
Below(a, b) == ~IsNaN(a) /\ ~IsNaN(b) /\ a < b

\* The bands of the outer loop that end with hasAbove && hasBelow, in the
\* order of the loop; band indices are the code's, from 0.
RECURSIVE CrossingFrom(_, _, _, _)
CrossingFrom(rows, fermiEnergy, numBands, bandIdx) ==
  IF bandIdx >= numBands THEN <<>>
  ELSE LET defined == { n \in 1..Len(rows) : bandIdx + 1 <= Len(rows[n]) }
           hasAbove == \E n \in defined : Above(rows[n][bandIdx + 1], fermiEnergy)
           hasBelow == \E n \in defined : Below(rows[n][bandIdx + 1], fermiEnergy)
       IN  (IF hasAbove /\ hasBelow THEN <<bandIdx>> ELSE <<>>)
           \o CrossingFrom(rows, fermiEnergy, numBands, bandIdx + 1)

findFermiCrossingBands(data) ==
  CrossingFrom([n \in 1..Len(data.kPoints) |-> data.kPoints[n].energies],
               data.fermiEnergy, data.numBands, 0)

(***************************************************************************)
(* wien2kFermiGrid.ts                                                      *)
(***************************************************************************)
\* Same scan as parseFermiFromScf, on case.output2.
parseFermiFromOutput2(content) == Times(LastFermi(content, 1, 0), RY_TO_EV)

\* One line of case.output1: "K" matches /^\s*K=/, "are" includes
\* EIGENVALUES ARE, "below" includes EIGENVALUES BELOW; any other line has
\* `values`, the numbers /[-+]?\d*\.?\d+(?:[Ee][+-]?\d+)?/g finds in it.
Output1Step(st, line) ==
  IF line.kind = "K"
  THEN [energiesByKPoint |-> IF st.hasCurrent /\ Len(st.current) > 0
                             THEN Append(st.energiesByKPoint, st.current)
                             ELSE st.energiesByKPoint,
        hasCurrent |-> TRUE, current |-> <<>>, inEnergies |-> FALSE]
  ELSE IF line.kind = "are" THEN [st EXCEPT !.inEnergies = TRUE]
  ELSE IF line.kind = "below" THEN [st EXCEPT !.inEnergies = FALSE]
  ELSE IF st.inEnergies /\ st.hasCurrent
  THEN [st EXCEPT !.current =
          st.current \o [n \in 1..Len(line.values) |-> Times(line.values[n], RY_TO_EV)]]
  ELSE st

RECURSIVE Output1Loop(_, _, _)
Output1Loop(lines, p, st) ==
  IF p > Len(lines) THEN st ELSE Output1Loop(lines, p + 1, Output1Step(st, lines[p]))

RECURSIVE MinLength(_)
MinLength(rows) ==
  IF Len(rows) = 1 THEN Len(rows[1]) ELSE Min2(Len(rows[1]), MinLength(Tail(rows)))

\* The mutant takes the band count of the first k-point and truncates nothing.
Output1RaggedRows(rows) ==
  [energiesByKPoint |-> rows, numBands |-> IF Len(rows) > 0 THEN Len(rows[1]) ELSE 0]

\* numBands = Math.min(...lengths); every row spliced to numBands.
Output1Rectangular(rows) ==
  IF Len(rows) > 0
  THEN LET numBands == MinLength(rows)
       IN  [energiesByKPoint |-> [n \in 1..Len(rows) |-> SubSeq(rows[n], 1, numBands)],
            numBands |-> numBands]
  ELSE [energiesByKPoint |-> rows, numBands |-> 0]

parseOutput1(content) ==
  LET st == Output1Loop(content, 1,
                        [energiesByKPoint |-> <<>>, hasCurrent |-> FALSE,
                         current |-> <<>>, inEnergies |-> FALSE])
      rows == IF st.hasCurrent /\ Len(st.current) > 0
              THEN Append(st.energiesByKPoint, st.current)
              ELSE st.energiesByKPoint
  IN  Output1Rectangular(rows)

findFermiCrossingBandsFromGrid(energiesByKPoint, fermiEnergy) ==
  IF Len(energiesByKPoint) = 0 THEN <<>>
  ELSE CrossingFrom(energiesByKPoint, fermiEnergy, Len(energiesByKPoint[1]), 0)

\* A thrown error, in place of a returned value.
Thrown(message) == [error |-> message]
IsThrown(result) == "error" \in DOMAIN result

\* One line of case.outputkgen.  kind is
\*   "g123"     the line matches /\bG1\b\s+G2\s+G3/
\*   "division" it includes DIVISION OF RECIPROCAL LATTICE VECTORS; `ints` are
\*              the integers parseIntLine finds in it
\*   "header"   it includes point, coordinates and relation
\*   "point"    trimmed, it starts with point (and is no "header")
\*   "numbers"  its tokens are numbers or not: `nums` are Number(token)
\*   "text", "blank"
\* parseFloatLine(line): the tokens that parse as numbers.
ParseFloatLine(line) ==
  IF line.kind = "numbers" THEN SelectSeq(line.nums, LAMBDA v : ~IsNaN(v))
  ELSE IF line.kind = "division" THEN line.ints
  ELSE <<>>

\* The scan for the reciprocal vectors from line p on: a TypeError when a
\* G1 G2 G3 line has fewer than three lines after it.
RECURSIVE KgenVectors(_, _)
KgenVectors(lines, p) ==
  IF p > Len(lines) THEN [vectors |-> <<>>]
  ELSE IF lines[p].kind = "g123"
  THEN IF p + 3 > Len(lines) THEN Thrown("TypeError")
       ELSE LET vec1 == ParseFloatLine(lines[p + 1])
                vec2 == ParseFloatLine(lines[p + 2])
                vec3 == ParseFloatLine(lines[p + 3])
            IN  IF Len(vec1) = 3 /\ Len(vec2) = 3 /\ Len(vec3) = 3
                THEN [vectors |-> <<vec1, vec2, vec3>>]
                ELSE KgenVectors(lines, p + 1)
  ELSE KgenVectors(lines, p + 1)

FirstLineOfKind(lines, kinds) ==
  IF \E p \in 1..Len(lines) : lines[p].kind \in kinds
  THEN CHOOSE p \in 1..Len(lines) :
         lines[p].kind \in kinds /\ \A q \in 1..(p - 1) : lines[q].kind \notin kinds
  ELSE 0

\* (nx, ny, nz) from the first DIVISION line, (0, 0, 0) left when there is
\* none or it has fewer than three integers.
KgenMesh(lines) ==
  LET d == FirstLineOfKind(lines, {"division"})
      ints == IF d = 0 THEN <<>> ELSE lines[d].ints
      n == Len(ints)
  IN  IF n >= 3 THEN <<ints[n - 2] + 1, ints[n - 1] + 1, ints[n] + 1>> ELSE <<0, 0, 0>>

\* The line after which the data rows are read: the first "header" line,
\* else the first line starting with point, else 0 (the rows are read from
\* the first line of the file).
KgenHeaderLine(lines) ==
  IF FirstLineOfKind(lines, {"header"}) # 0 THEN FirstLineOfKind(lines, {"header"})
  ELSE FirstLineOfKind(lines, {"header", "point"})

IsDataRow(line) ==
  /\ line.kind = "numbers"
  /\ Len(line.nums) >= 5
  /\ \A n \in 1..Len(line.nums) : ~IsNaN(line.nums[n])

\* The while loop over the rows from line `cursor` on.
RECURSIVE KgenEntries(_, _, _, _)
KgenEntries(lines, cursor, totalPoints, entries) ==
  IF cursor > Len(lines) \/ Len(entries) >= totalPoints THEN entries
  ELSE IF IsDataRow(lines[cursor])
  THEN KgenEntries(lines, cursor + 1, totalPoints,
                   Append(entries, [x |-> lines[cursor].nums[2], y |-> lines[cursor].nums[3],
                                    z |-> lines[cursor].nums[4],
                                    relation |-> lines[cursor].nums[5]]))
  ELSE KgenEntries(lines, cursor + 1, totalPoints, entries)

parseOutputkgen(content) ==
  LET found == KgenVectors(content, 1)
      mesh == KgenMesh(content)
      totalPoints == mesh[1] * mesh[2] * mesh[3]
      entries == KgenEntries(content, KgenHeaderLine(content) + 1, totalPoints, <<>>)
  IN  IF IsThrown(found) THEN found
      ELSE IF mesh[1] = 0 \/ mesh[2] = 0 \/ mesh[3] = 0
      THEN Thrown("Failed to parse mesh dimensions from outputkgen.")
      ELSE IF Len(entries) < totalPoints
      THEN Thrown("Expected totalPoints k-point entries, got fewer.")
      ELSE [nx |-> mesh[1], ny |-> mesh[2], nz |-> mesh[3],
            reciprocalVectors |-> found.vectors, entries |-> entries]

\* What reading an array element that was never assigned gives.
Undefined == 999997

\* kIredInd: slot index + 1 holds the relation of entry index; slot 0 and
\* the slots of no entry are never assigned.
KIredInd(entries, ind1) ==
  IF ind1 \in 1..Len(entries) THEN entries[ind1].relation ELSE Undefined

\* seq2iredInd, of totalPoints + 1 slots filled with 0: a self-related row
\* gets its position among the self-related rows, any other row the
\* relation of the row it is related to.
Seq2iredInd(entries, totalPoints, ind1) ==
  IF ind1 \notin 0..totalPoints THEN Undefined
  ELSE IF ind1 = 0 THEN 0
  ELSE IF KIredInd(entries, ind1) = ind1
  THEN Cardinality({ j \in 1..ind1 : KIredInd(entries, j) = j })
  ELSE KIredInd(entries, KIredInd(entries, ind1))

\* data[b][gridIndex] = value: a store outside a Float32Array does nothing.
StoreCell(band, gridIndex, value) ==
  IF gridIndex \in 0..(Len(band) - 1)
  THEN [band EXCEPT ![gridIndex + 1] = Fround(value)]
  ELSE band

\* The mutant takes the energies by the relation itself, not by its position
\* among the self-related rows.
FillByRelation(entries, totalPoints, energiesByKPoint, numBands, dims, idx, data) ==
  LET irreducibleIndex == KIredInd(entries, idx + 1)
      entry == entries[idx + 1]
      gridIndex == entry.x + entry.y * dims[1] + entry.z * dims[1] * dims[2]
  IN  IF irreducibleIndex \in 1..Len(energiesByKPoint)
      THEN [b \in 1..numBands |->
              StoreCell(data[b], gridIndex, energiesByKPoint[irreducibleIndex][b])]
      ELSE data

\* One turn of the fill loop, for entry idx (from 0).
FillEntry(entries, totalPoints, energiesByKPoint, numBands, dims, idx, data) ==
  LET ind2Mapped == KIredInd(entries, idx + 1)
      irreducibleIndex == Seq2iredInd(entries, totalPoints, ind2Mapped)
      entry == entries[idx + 1]
      gridIndex == entry.x + entry.y * dims[1] + entry.z * dims[1] * dims[2]
  IN  IF irreducibleIndex \in 1..Len(energiesByKPoint)
      THEN [b \in 1..numBands |->
              StoreCell(data[b], gridIndex, energiesByKPoint[irreducibleIndex][b])]
      ELSE data

RECURSIVE FillLoop(_, _, _, _, _, _, _)
FillLoop(entries, totalPoints, energiesByKPoint, numBands, dims, idx, data) ==
  IF idx >= Len(entries) THEN data
  ELSE FillLoop(entries, totalPoints, energiesByKPoint, numBands, dims, idx + 1,
                FillEntry(entries, totalPoints, energiesByKPoint, numBands, dims, idx, data))

\* new Float32Array(n) and new Array(n) throw a RangeError for a negative n.
buildWien2kBandGrid(output1Content, output2Content, outputkgenContent, caseName) ==
  LET parsed1 == parseOutput1(output1Content)
      fermiEnergy == parseFermiFromOutput2(output2Content)
      outputkgenData == parseOutputkgen(outputkgenContent)
  IN  IF IsThrown(outputkgenData) THEN outputkgenData
      ELSE
        LET dims == <<outputkgenData.nx, outputkgenData.ny, outputkgenData.nz>>
            totalPoints == dims[1] * dims[2] * dims[3]
            numBands == parsed1.numBands
        IN  IF (numBands > 0 /\ totalPoints < 0) \/ totalPoints + 1 < 0
            THEN Thrown("RangeError")
            ELSE
              LET empty == [b \in 1..numBands |-> [i \in 1..totalPoints |-> 0]]
                  data == FillLoop(outputkgenData.entries, totalPoints,
                                   parsed1.energiesByKPoint, numBands, dims, 0, empty)
              IN  [grid |-> EnergyGrid(dims[1], dims[2], dims[3], data, fermiEnergy),
                   numBands |-> numBands,
                   irreducibleKPoints |-> Len(parsed1.energiesByKPoint),
                   reciprocalVectors |-> outputkgenData.reciprocalVectors,
                   caseName |-> caseName,
                   energiesByKPoint |-> parsed1.energiesByKPoint]

(***************************************************************************)
(* kpointSymmetry.ts and gridInterpolation.ts: the interpolated grid.      *)
(* A coordinate is passed as its numerator over an even denominator `den`; *)
(* the coordinates of expanded points are over One.  Products and sums of  *)
(* such numbers are exact here; the code's doubles round them.             *)
(***************************************************************************)
\* a % n in JavaScript: the result has the sign of a.
JsRem(a, n) == IF a >= 0 THEN a % n ELSE -((-a) % n)

\* Math.round(num / den), den > 0: halves go up.
RoundHalfUp(num, den) == (2 * num + den) \div (2 * den)

\* Math.round((k + 0.5) * gridSize) % gridSize for k = kn / den.
GridKeyIndex(kn, den, gridSize) ==
  JsRem(RoundHalfUp((2 * kn + den) * gridSize, 2 * den), gridSize)

\* The key `${ix},${iy},${iz}` as the triple of its numbers.
kPointToGridKey(kxn, kyn, kzn, den, gridSize) ==
  << GridKeyIndex(kxn, den, gridSize), GridKeyIndex(kyn, den, gridSize),
     GridKeyIndex(kzn, den, gridSize) >>

\* The mutant keeps the last k-point of a key.
LookupKeepsLast(expandedKPoints, gridSize) ==
  LET keyOf(i) == kPointToGridKey(expandedKPoints[i].kx, expandedKPoints[i].ky,
                                  expandedKPoints[i].kz, One, gridSize)
      keys == { keyOf(i) : i \in 1..Len(expandedKPoints) }
  IN  [key \in keys |->
         expandedKPoints[CHOOSE i \in 1..Len(expandedKPoints) :
                           /\ keyOf(i) = key
                           /\ \A j \in (i + 1)..Len(expandedKPoints) : keyOf(j) # key]]

\* The Map: for every key of a k-point the first k-point with that key.
buildKPointLookupMap(expandedKPoints, gridSize) ==
  LET keyOf(i) == kPointToGridKey(expandedKPoints[i].kx, expandedKPoints[i].ky,
                                  expandedKPoints[i].kz, One, gridSize)
      keys == { keyOf(i) : i \in 1..Len(expandedKPoints) }
  IN  [key \in keys |->
         expandedKPoints[CHOOSE i \in 1..Len(expandedKPoints) :
                           /\ keyOf(i) = key
                           /\ \A j \in 1..(i - 1) : keyOf(j) # key]]

\* kpLookup.get(key) || null
LookupGet(kpLookup, key) == IF key \in DOMAIN kpLookup THEN kpLookup[key] ELSE Null

\* Math.min(d, 1.0 - d) for d = |a - b|, in units of 1 / full.
PeriodicGap(a, b, full) == Min2(Abs(a - b), full - Abs(a - b))

\* The squared distance the loop of findNearestKPoint computes, in units of
\* 1 / (One * den).
NearestDist(kp, kxn, kyn, kzn, den) ==
  LET dx == PeriodicGap(kp.kx * den, kxn * One, One * den)
      dy == PeriodicGap(kp.ky * den, kyn * One, One * den)
      dz == PeriodicGap(kp.kz * den, kzn * One, One * den)
  IN  dx * dx + dy * dy + dz * dz

\* The first k-point whose distance no other undercuts; null for no k-points.
findNearestKPoint(kxn, kyn, kzn, den, expandedKPoints) ==
  IF Len(expandedKPoints) = 0 THEN Null
  ELSE expandedKPoints[
         CHOOSE i \in 1..Len(expandedKPoints) :
           /\ \A j \in 1..Len(expandedKPoints) :
                NearestDist(expandedKPoints[i], kxn, kyn, kzn, den)
                  <= NearestDist(expandedKPoints[j], kxn, kyn, kzn, den)
           /\ \A j \in 1..(i - 1) :
                NearestDist(expandedKPoints[j], kxn, kyn, kzn, den)
                  > NearestDist(expandedKPoints[i], kxn, kyn, kzn, den)]

\* The mutant takes the fraction from a truncation toward zero.
FractionByTruncation(kn, den, gridSize) == JsRem((2 * kn + den) * gridSize, 2 * den)

\* The lower corner index Math.floor(g) and the fraction g - Math.floor(g)
\* of g = (k + 0.5) * gridSize, the fraction as a numerator over 2 * den.
LowerIndex(kn, den, gridSize) == ((2 * kn + den) * gridSize) \div (2 * den)
Fraction(kn, den, gridSize) == ((2 * kn + den) * gridSize) % (2 * den)

\* The mutant weighs the upper corners by 1 - f as well.
CubeWeightsLowerOnly(fx, fy, fz, full) ==
  [c \in 1..8 |-> (full - fx) * (full - fy) * (full - fz)]

\* The 8 trilinear weights in the order 000, 100, 010, 110, 001, 101, 011,
\* 111, as numerators over full^3, for the fractions fx, fy, fz over full.
CubeWeights(fx, fy, fz, full) ==
  [c \in 1..8 |->
     (IF (c - 1) % 2 = 1 THEN fx ELSE full - fx)
     * (IF ((c - 1) \div 2) % 2 = 1 THEN fy ELSE full - fy)
     * (IF (c - 1) \div 4 = 1 THEN fz ELSE full - fz)]

\* corners in the order of the loops dz, dy, dx; weightDen is the
\* denominator of the weights.
findInterpolationCube(kxn, kyn, kzn, den, kpLookup, gridSize) ==
  LET ix0 == LowerIndex(kxn, den, gridSize)
      iy0 == LowerIndex(kyn, den, gridSize)
      iz0 == LowerIndex(kzn, den, gridSize)
      full == 2 * den
  IN  [corners |->
         [c \in 1..8 |->
            LookupGet(kpLookup,
                      << JsRem(ix0 + ((c - 1) % 2), gridSize),
                         JsRem(iy0 + (((c - 1) \div 2) % 2), gridSize),
                         JsRem(iz0 + ((c - 1) \div 4), gridSize) >>)],
       weights |-> CubeWeights(Fraction(kxn, den, gridSize), Fraction(kyn, den, gridSize),
                               Fraction(kzn, den, gridSize), full),
       weightDen |-> full * full * full]

RECURSIVE SumOf(_)
SumOf(seq) == IF seq = <<>> THEN 0 ELSE Head(seq) + SumOf(Tail(seq))

\* corner && corner.energies[bandIndex] !== undefined
CornerCounts(corner, bandIndex) ==
  corner # Null /\ bandIndex >= 0 /\ bandIndex + 1 <= Len(corner.energies)

\* result / totalWeight as the pair of the two sums (the denominator of the
\* weights cancels); null when totalWeight === 0.
interpolateEnergy(corners, weights, bandIndex) ==
  LET result == SumOf([i \in 1..8 |->
                         IF CornerCounts(corners[i], bandIndex)
                         THEN corners[i].energies[bandIndex + 1] * weights[i] ELSE 0])
      totalWeight == SumOf([i \in 1..8 |->
                              IF CornerCounts(corners[i], bandIndex) THEN weights[i] ELSE 0])
  IN  [isNull |-> totalWeight = 0, num |-> result, den |-> totalWeight]

\* A store of num / den (den > 0) into a Float32Array.
FroundRatio(num, den) ==
  LET q == num \div (den * F32Step)
      r == num - q * den * F32Step
  IN  IF 2 * r < den * F32Step THEN F32Step * q
      ELSE IF 2 * r > den * F32Step THEN F32Step * (q + 1)
      ELSE IF q % 2 = 0 THEN F32Step * q
      ELSE F32Step * (q + 1)

\* The mutant lays the cells out with iz fastest.
FillCellZFastest(expandedKPoints, gridSize, bands, kpLookup, sourceGridSize, n, data) ==
  LET ix == n % gridSize
      iy == (n \div gridSize) % gridSize
      iz == n \div (gridSize * gridSize)
      den == 2 * gridSize
      kxn == 2 * ix - gridSize
      kyn == 2 * iy - gridSize
      kzn == 2 * iz - gridSize
      cube == findInterpolationCube(kxn, kyn, kzn, den, kpLookup, sourceGridSize)
      gridIdx == iz + iy * gridSize + ix * gridSize * gridSize
      nearest == findNearestKPoint(kxn, kyn, kzn, den, expandedKPoints)
  IN  [b \in 1..Len(bands) |->
         LET interpolated == interpolateEnergy(cube.corners, cube.weights, bands[b])
         IN  IF ~interpolated.isNull
             THEN [data[b] EXCEPT ![gridIdx + 1] =
                     FroundRatio(interpolated.num, interpolated.den)]
             ELSE IF CornerCounts(nearest, bands[b])
             THEN [data[b] EXCEPT ![gridIdx + 1] = Fround(nearest.energies[bands[b] + 1])]
             ELSE data[b]]

\* The body of the three loops for the n-th cell in loop order (ix fastest).
FillCell(expandedKPoints, gridSize, bands, kpLookup, sourceGridSize, n, data) ==
  LET ix == n % gridSize
      iy == (n \div gridSize) % gridSize
      iz == n \div (gridSize * gridSize)
      den == 2 * gridSize
      kxn == 2 * ix - gridSize
      kyn == 2 * iy - gridSize
      kzn == 2 * iz - gridSize
      cube == findInterpolationCube(kxn, kyn, kzn, den, kpLookup, sourceGridSize)
      gridIdx == ix + iy * gridSize + iz * gridSize * gridSize
      nearest == findNearestKPoint(kxn, kyn, kzn, den, expandedKPoints)
  IN  [b \in 1..Len(bands) |->
         LET interpolated == interpolateEnergy(cube.corners, cube.weights, bands[b])
         IN  IF ~interpolated.isNull
             THEN [data[b] EXCEPT ![gridIdx + 1] =
                     FroundRatio(interpolated.num, interpolated.den)]
             ELSE IF CornerCounts(nearest, bands[b])
             THEN [data[b] EXCEPT ![gridIdx + 1] = Fround(nearest.energies[bands[b] + 1])]
             ELSE data[b]]

RECURSIVE FillCells(_, _, _, _, _, _, _)
FillCells(expandedKPoints, gridSize, bands, kpLookup, sourceGridSize, n, data) ==
  IF n >= gridSize * gridSize * gridSize THEN data
  ELSE FillCells(expandedKPoints, gridSize, bands, kpLookup, sourceGridSize, n + 1,
                 FillCell(expandedKPoints, gridSize, bands, kpLookup, sourceGridSize, n, data))

buildEnergyGrid(expandedKPoints, gridSize, bandIndices, fermiEnergy, sourceGridSize) ==
  LET numBands == IF Len(expandedKPoints) > 0 THEN Len(expandedKPoints[1].energies) ELSE 0
      bands == IF Len(bandIndices) > 0 THEN bandIndices ELSE [i \in 1..numBands |-> i - 1]
      kpLookup == buildKPointLookupMap(expandedKPoints, sourceGridSize)
      empty == [b \in 1..Len(bands) |-> [i \in 1..(gridSize * gridSize * gridSize) |-> 0]]
  IN  EnergyGrid(gridSize, gridSize, gridSize,
                 FillCells(expandedKPoints, gridSize, bands, kpLookup, sourceGridSize, 0, empty),
                 fermiEnergy)

\* ((i % n) + n) % n
\* The mutant takes the remainder once: a negative index stays negative.
PeriodicOnce(i, n) == JsRem(i, n)

PeriodicIndex(i, n) == JsRem(JsRem(i, n) + n, n)

\* idx = px + py * nx + pz * nx * ny
GridIndex(energyGrid, ix, iy, iz) ==
  PeriodicIndex(ix, energyGrid.nx) + PeriodicIndex(iy, energyGrid.ny) * energyGrid.nx
    + PeriodicIndex(iz, energyGrid.nz) * energyGrid.nx * energyGrid.ny

\* array[idx] of a Float32Array: undefined outside the array.
ReadCell(array, idx) == IF idx + 1 \in DOMAIN array THEN array[idx + 1] ELSE Undefined

\* The mutant reads the array with iz fastest.
GridValueZFastest(energyGrid, bandArrayIndex, ix, iy, iz) ==
  energyGrid.data[bandArrayIndex + 1][PeriodicIndex(iz, energyGrid.nz) + PeriodicIndex(iy, energyGrid.ny) * energyGrid.nz
                                + PeriodicIndex(ix, energyGrid.nx) * energyGrid.nz * energyGrid.ny + 1]

getGridValue(energyGrid, bandArrayIndex, ix, iy, iz) ==
  ReadCell(energyGrid.data[bandArrayIndex + 1], GridIndex(energyGrid, ix, iy, iz))

\* a * (1 - f) + b * f for f = fn / full, times full.
Lerp(a, b, fn, full) == a * (full - fn) + b * fn

\* The result for k = (kxn, kyn, kzn) / den as the numerator num of
\* num / den with den = (2 * den)^3.
sampleGridEnergy(energyGrid, bandArrayIndex, kxn, kyn, kzn, den) ==
  LET full == 2 * den
      ix0 == LowerIndex(kxn, den, energyGrid.nx)
      iy0 == LowerIndex(kyn, den, energyGrid.ny)
      iz0 == LowerIndex(kzn, den, energyGrid.nz)
      fx == Fraction(kxn, den, energyGrid.nx)
      fy == Fraction(kyn, den, energyGrid.ny)
      fz == Fraction(kzn, den, energyGrid.nz)
      v000 == getGridValue(energyGrid, bandArrayIndex, ix0, iy0, iz0)
      v100 == getGridValue(energyGrid, bandArrayIndex, ix0 + 1, iy0, iz0)
      v010 == getGridValue(energyGrid, bandArrayIndex, ix0, iy0 + 1, iz0)
      v110 == getGridValue(energyGrid, bandArrayIndex, ix0 + 1, iy0 + 1, iz0)
      v001 == getGridValue(energyGrid, bandArrayIndex, ix0, iy0, iz0 + 1)
      v101 == getGridValue(energyGrid, bandArrayIndex, ix0 + 1, iy0, iz0 + 1)
      v011 == getGridValue(energyGrid, bandArrayIndex, ix0, iy0 + 1, iz0 + 1)
      v111 == getGridValue(energyGrid, bandArrayIndex, ix0 + 1, iy0 + 1, iz0 + 1)
      v00 == Lerp(v000, v100, fx, full)
      v01 == Lerp(v001, v101, fx, full)
      v10 == Lerp(v010, v110, fx, full)
      v11 == Lerp(v011, v111, fx, full)
      v0 == Lerp(v00, v10, fy, full)
      v1 == Lerp(v01, v11, fy, full)
  IN  [num |-> Lerp(v0, v1, fz, full), den |-> full * full * full]

(***************************************************************************)
(* Input files.                                                            *)
(***************************************************************************)
\* Largest number of k-points in an energy listing.
MaxSamples == 3
\* Largest number of bands of one k-point in an energy listing.
MaxLevels == 2
\* Largest number of operation blocks in a structure file.
MaxBlocks == 2
\* Largest number of lines after the column header of a mesh listing.
MaxRows == 3

RECURSIVE NatToken(_)
NatToken(n) ==
  IF n < 10 THEN <<Digits[n + 1]>> ELSE NatToken(n \div 10) \o <<Digits[(n % 10) + 1]>>
NumToken(n) == IF n < 0 THEN <<"-">> \o NatToken(-n) ELSE NatToken(n)
FloatToken(n) == NumToken(n) \o <<".", "0">>
Word == <<"x">>

RECURSIVE Flatten(_)
Flatten(seqs) == IF seqs = <<>> THEN <<>> ELSE Head(seqs) \o Flatten(Tail(seqs))

TextLine == [kind |-> "text"]
BlankLine == [kind |-> "blank"]

\* case.klist: "index kx*div ky*div kz*div div weight", the first line with
\* "... 1000 k, div: ( 10 10 10)" after the weight, END after the last.
KlistLine(index, a, b, c, div, weight) ==
  [parts |-> <<NumToken(index), NumToken(a), NumToken(b), NumToken(c), NumToken(div),
               FloatToken(weight)>>
             \o (IF index = 1 THEN <<NumToken(8), <<"k", ",">>, Word>> ELSE <<>>),
   divGrid |-> IF index = 1 THEN 2 ELSE NoMatch,
   total |-> IF index = 1 THEN 8 ELSE NoMatch]
KlistEnd == [parts |-> << <<"E", "N", "D">> >>, divGrid |-> NoMatch, total |-> NoMatch]
KlistFile(n) == [i \in 1..n |-> KlistLine(i, i - 1, 0, 0, 2, i)] \o <<KlistEnd>>

\* case.energy: per k-point a header and its band lines.
EnergyLevels == {-1, 0, 1}
EnergyHeader(numBands) ==
  [kind |-> "header", kx |-> 0, ky |-> 0, kz |-> 0, numBands |-> numBands, weight |-> FloatScale]
BandLine(energyRy) == [kind |-> "band", energyRy |-> energyRy]
EnergyBlock(levels) ==
  <<EnergyHeader(Len(levels))>> \o [b \in 1..Len(levels) |-> BandLine(levels[b])]
EnergyBlocks == { EnergyBlock(levels) : levels \in SeqsUpTo(EnergyLevels, MaxLevels) }
SocHeader == <<TextLine, TextLine, TextLine, TextLine>>

\* case.scf and case.output2: lines with and without the :FER tag.
FerLine(value) == [kind |-> "fer", value |-> value]
FermiFiles ==
  { <<TextLine>>, <<TextLine, FerLine(1), TextLine, FerLine(0)>>, <<FerLine(0), FerLine(1)>> }

\* case.struct rows: " 1 0 0 0.00000000", and " 0-1 0 0.00000000" with the
\* minus sign packed against the digit before it.
StructLine(parts, symCount) == [parts |-> parts, symCount |-> symCount]
Translation == <<"0", ".", "0", "0">>
RowLine(rotTokens) == StructLine(rotTokens \o <<Translation>>, NoMatch)
IndexLine(n) == StructLine(<<NumToken(n)>>, NoMatch)
SymHeaderLine(n) ==
  StructLine(<<NumToken(n), <<"N">>, <<"O">>, <<"S">>, <<"O">> >>, n)
TitleLine == StructLine(<<Word, Word>>, NoMatch)
LatticeLine ==
  StructLine(<<FloatToken(12), FloatToken(12), FloatToken(12),
               FloatToken(90), FloatToken(90), FloatToken(90)>>, NoMatch)

IdentityBlock ==
  << RowLine(<<NumToken(1), NumToken(0), NumToken(0)>>),
     RowLine(<<NumToken(0), NumToken(1), NumToken(0)>>),
     RowLine(<<NumToken(0), NumToken(0), NumToken(1)>>) >>
InversionBlock ==
  << RowLine(<<NumToken(-1), NumToken(0), NumToken(0)>>),
     RowLine(<<NumToken(0), NumToken(-1), NumToken(0)>>),
     RowLine(<<NumToken(0), NumToken(0), NumToken(-1)>>) >>
\* " 1 0 0", " 0-1 0", " 0 0-1"
PackedBlock ==
  << RowLine(<<NumToken(1), NumToken(0), NumToken(0)>>),
     RowLine(<< <<"0", "-", "1">>, NumToken(0)>>),
     RowLine(<<NumToken(0), <<"0", "-", "1">> >>) >>
\* "-1-1-1" rows: three signed digits with nothing between them.
DensePackedBlock ==
  << RowLine(<< <<"-", "1", "0", "0">> >>),
     RowLine(<< <<"0", "-", "1", "0">> >>),
     RowLine(<< <<"0", "0", "-", "1">> >>) >>
StructBlocks == { IdentityBlock, InversionBlock, PackedBlock, DensePackedBlock }

RECURSIVE NumberedBlocks(_, _)
NumberedBlocks(blocks, n) ==
  IF blocks = <<>> THEN <<>>
  ELSE Head(blocks) \o <<IndexLine(n)>> \o NumberedBlocks(Tail(blocks), n + 1)

\* The lines before the operations: title, lattice type, mode, lattice
\* parameters (line 4) and an atom line; or a file cut down to its title.
StructPreambles ==
  { <<TitleLine, TitleLine, TitleLine, LatticeLine, TitleLine>>, <<TitleLine>> }

StructFiles ==
  { pre \o hdr \o SubSeq(NumberedBlocks(blocks, 1), 1, 4 * Len(blocks) - cut) :
      pre \in StructPreambles,
      hdr \in { <<>>, <<SymHeaderLine(1)>>, <<SymHeaderLine(2)>> },
      blocks \in SeqsUpTo(StructBlocks, MaxBlocks),
      cut \in {0, 1} }

\* case.outputkgen.
NumbersLine(nums) == [kind |-> "numbers", nums |-> nums]
DivisionLine(ints) == [kind |-> "division", ints |-> ints]
KgenVectorLines ==
  << [kind |-> "g123"], NumbersLine(<<1, 0, 0>>), NumbersLine(<<0, 1, 0>>),
     NumbersLine(<<0, 0, 1>>) >>
\* Data rows "point x y z relation", a row with four numbers, a row with a
\* token that is no number, a blank line.
KgenRowLines ==
  { NumbersLine(<<1, 0, 0, 0, 1>>), NumbersLine(<<2, 1, 0, 0, 1>>),
    NumbersLine(<<3, 0, 0, 0>>), NumbersLine(<<2, 1, NaN, 0, 1>>), BlankLine }
\* The DIVISION line: absent, without three integers, with them, with
\* negative ones (parseInt reads a sign).
KgenDivisions ==
  { <<>>, <<DivisionLine(<<1, 0>>)>>, <<DivisionLine(<<0, 0, 0>>)>>,
    <<DivisionLine(<<1, 0, 0>>)>>, <<DivisionLine(<<7, 0, 1, 0>>)>>,
    <<DivisionLine(<<-1, 0, 0>>)>>, <<DivisionLine(<<-2, 0, 0>>)>>,
    <<DivisionLine(<<0, 0, 0>>), DivisionLine(<<1, 0, 0>>)>> }
KgenHeaders == { <<>>, <<[kind |-> "header"]>>, <<[kind |-> "point"]>> }

KgenFiles ==
  { vectors \o division \o before \o header \o rows \o after :
      vectors \in { <<>>, KgenVectorLines },
      division \in KgenDivisions,
      before \in { <<>>, <<NumbersLine(<<1, 0, 0, 0, 1>>)>> },
      header \in KgenHeaders,
      rows \in SeqsUpTo(KgenRowLines, MaxRows),
      after \in { <<>>, <<[kind |-> "g123"], NumbersLine(<<1, 0, 0>>)>> } }

\* case.output1: per k-point "K=", "EIGENVALUES ARE", the energies,
\* "EIGENVALUES BELOW" and a line of numbers that is no energy.
ValuesLine(values) == [kind |-> "values", values |-> values]
Output1Block(levels) ==
  << [kind |-> "K"], ValuesLine(<<5>>), [kind |-> "are"], ValuesLine(levels),
     [kind |-> "below"], ValuesLine(<<7>>) >>
Output1Blocks == { Output1Block(levels) : levels \in SeqsUpTo(EnergyLevels, MaxLevels) }

(***************************************************************************)
(* The generic variant: calls.                                             *)
(***************************************************************************)
GenericIdle ==
  /\ klist = <<>> /\ energy = <<>> /\ scf = <<>> /\ struct = <<>>
  /\ spinOrbit = FALSE
  /\ structResult = Null
  /\ rawData = Null
  /\ crossingBands = <<>>
  /\ genericPc = "idle"

GenericResultsInit ==
  /\ structResult = Null
  /\ rawData = Null
  /\ crossingBands = <<>>
  /\ genericPc = "ready"

\* Energy listings of every shape, a k-list with as many k-points or one
\* more, a well-formed structure file.
GenericCrossingInit ==
  /\ spinOrbit \in BOOLEAN
  /\ \E blocks \in SeqsUpTo(EnergyBlocks, MaxSamples), extra \in {0, 1} :
       /\ energy = (IF spinOrbit THEN SocHeader ELSE <<>>) \o Flatten(blocks)
       /\ klist = KlistFile(Len(blocks) + extra)
  /\ scf \in FermiFiles
  /\ struct = <<TitleLine, TitleLine, TitleLine, LatticeLine, SymHeaderLine(1)>>
              \o NumberedBlocks(<<IdentityBlock>>, 1)
  /\ GenericResultsInit

\* Structure files of every shape, the other files small and well-formed.
GenericStructInit ==
  /\ struct \in StructFiles
  /\ klist = KlistFile(2)
  /\ energy = EnergyBlock(<<-1, 1>>) \o EnergyBlock(<<1, 1>>)
  /\ spinOrbit = FALSE
  /\ scf = <<FerLine(0)>>
  /\ GenericResultsInit

CallParseStruct ==
  /\ genericPc = "ready"
  /\ structResult = Null
  /\ structResult' = parseStruct(struct)
  /\ UNCHANGED <<klist, energy, scf, struct, spinOrbit, rawData, crossingBands, genericPc>>
  /\ UNCHANGED allButGeneric

CallParseWien2kFermiData ==
  /\ genericPc = "ready"
  /\ rawData' = parseWien2kFermiData(klist, energy, scf, struct, "case", spinOrbit)
  /\ genericPc' = "parsed"
  /\ UNCHANGED <<klist, energy, scf, struct, spinOrbit, structResult, crossingBands>>
  /\ UNCHANGED allButGeneric

CallFindFermiCrossingBands ==
  /\ genericPc = "parsed"
  /\ crossingBands' = findFermiCrossingBands(rawData)
  /\ genericPc' = "done"
  /\ UNCHANGED <<klist, energy, scf, struct, spinOrbit, structResult, rawData>>
  /\ UNCHANGED allButGeneric

(***************************************************************************)
(* The Xcrysden-style variant: calls.                                      *)
(***************************************************************************)
GridPathIdle ==
  /\ output1 = <<>> /\ output2 = <<>> /\ outputkgen = <<>>
  /\ output1Data = Null
  /\ kgenResult = Null
  /\ bandGrid = Null
  /\ crossingFromGrid = <<>>
  /\ gridPc = "idle"

GridPathResultsInit ==
  /\ output1Data = Null
  /\ kgenResult = Null
  /\ bandGrid = Null
  /\ crossingFromGrid = <<>>
  /\ gridPc = "ready"

GridCrossingInit ==
  /\ \E blocks \in SeqsUpTo(Output1Blocks, MaxSamples) : output1 = Flatten(blocks)
  /\ output2 \in FermiFiles
  /\ outputkgen = <<>>
  /\ GridPathResultsInit

GridKgenInit ==
  /\ outputkgen \in KgenFiles
  /\ output1 = <<>>
  /\ output2 = <<>>
  /\ GridPathResultsInit

CallParseOutput1 ==
  /\ gridPc = "ready"
  /\ output1Data' = parseOutput1(output1)
  /\ gridPc' = "parsed"
  /\ UNCHANGED <<output1, output2, outputkgen, kgenResult, bandGrid, crossingFromGrid>>
  /\ UNCHANGED allButGridPath

\* FermiSurfacePage hands findFermiCrossingBandsFromGrid the energiesByKPoint
\* of parseOutput1 and the Fermi energy of parseFermiFromOutput2, both passed
\* on unchanged by buildWien2kBandGrid.
CallFindFermiCrossingBandsFromGrid ==
  /\ gridPc = "parsed"
  /\ crossingFromGrid' = findFermiCrossingBandsFromGrid(output1Data.energiesByKPoint,
                                                        parseFermiFromOutput2(output2))
  /\ gridPc' = "done"
  /\ UNCHANGED <<output1, output2, outputkgen, output1Data, kgenResult, bandGrid>>
  /\ UNCHANGED allButGridPath

CallParseOutputkgen ==
  /\ gridPc = "ready"
  /\ kgenResult' = parseOutputkgen(outputkgen)
  /\ gridPc' = "parsed"
  /\ UNCHANGED <<output1, output2, outputkgen, output1Data, bandGrid, crossingFromGrid>>
  /\ UNCHANGED allButGridPath

CrossingNext ==
  \/ CallParseWien2kFermiData
  \/ CallFindFermiCrossingBands
  \/ CallParseOutput1
  \/ CallFindFermiCrossingBandsFromGrid

StructNext == CallParseStruct \/ CallParseWien2kFermiData

KgenNext == CallParseOutputkgen

(***************************************************************************)
(* buildWien2kBandGrid: inputs and call.                                   *)
(***************************************************************************)
\* The energy in Ry of band b (from 1) of the k-point numbered j in
\* case.output1: different k-points differ in every band, also after the
\* conversion to eV and the store into a Float32Array.
ListedLevel(j, b) == ((j * b) % 5) - 2

\* case.output1 with n K= blocks of numBands energies, the first block with
\* one energy more when the listing is ragged.
BandGridOutput1(n, numBands, ragged) ==
  Flatten([j \in 1..n |->
             Output1Block([b \in 1..(numBands + (IF ragged /\ j = 1 THEN 1 ELSE 0)) |->
                             ListedLevel(j, b)])])

\* The rows of a mesh listing: row i has the coordinates cells[i] and the
\* relation relations[i].
ListingRows(cells, relations) ==
  [i \in 1..Len(cells) |->
     NumbersLine(<<i, cells[i][1], cells[i][2], cells[i][3], relations[i]>>)]

\* The cells of a 2 x 2 x 1 mesh and of a 2 x 1 x 1 mesh, in listing order;
\* the same with a cell listed twice and with a coordinate outside the mesh.
CellsInOrder == << <<0, 0, 0>>, <<0, 1, 0>>, <<1, 0, 0>>, <<1, 1, 0>> >>
CellListings ==
  { CellsInOrder,
    << <<0, 0, 0>>, <<1, 0, 0>>, <<0, 1, 0>>, <<1, 1, 0>> >>,
    << <<0, 0, 0>>, <<0, 1, 0>>, <<1, 0, 0>>, <<0, 1, 0>> >>,
    << <<0, 0, 0>>, <<0, 1, 0>>, <<2, 0, 0>>, <<1, 1, 0>> >> }

\* Relation columns: every row related to a self-related row (as kgen writes
\* them); and rows related to a row that is itself related to another, to no
\* row, or to a row after them.
RelationsToSelfRelated ==
  { <<1, 2, 3, 4>>, <<1, 1, 1, 1>>, <<1, 1, 3, 3>>, <<1, 2, 1, 2>>, <<1, 1, 3, 1>>,
    <<1, 2, 2, 4>>, <<1, 4, 4, 4>> }
RelationColumns ==
  RelationsToSelfRelated \cup { <<1, 4, 3, 3>>, <<1, 1, 2, 3>>, <<0, 1, 1, 1>>, <<1, 5, 1, 1>>,
                                <<2, 1, 3, 3>> }

BandGridListings ==
  { <<DivisionLine(<<1, 1, 0>>), [kind |-> "header"]>> \o ListingRows(cells, relations) :
      cells \in CellListings, relations \in RelationColumns }
  \cup { <<DivisionLine(<<1, 0, 0>>), [kind |-> "header"]>>
           \o ListingRows(<< <<0, 0, 0>>, <<1, 0, 0>> >>, relations) :
         relations \in { <<1, 2>>, <<1, 1>> } }
  \cup { <<DivisionLine(<<1, 1, 0>>), [kind |-> "header"]>>
           \o ListingRows(<< <<0, 0, 0>>, <<1, 0, 0>> >>, <<1, 1>>),
         <<[kind |-> "header"]>> \o ListingRows(CellsInOrder, <<1, 1, 1, 1>>),
         <<DivisionLine(<<-3, 0, 0>>)>> }

GridBandInit ==
  /\ \E n \in 0..MaxSamples, numBands \in 0..MaxLevels, ragged \in BOOLEAN :
       output1 = BandGridOutput1(n, numBands, ragged)
  /\ output2 \in { <<TextLine>>, <<FerLine(1)>> }
  /\ outputkgen \in BandGridListings
  /\ GridPathResultsInit

CallBuildWien2kBandGrid ==
  /\ gridPc = "ready"
  /\ bandGrid' = buildWien2kBandGrid(output1, output2, outputkgen, "case")
  /\ gridPc' = "built"
  /\ UNCHANGED <<output1, output2, outputkgen, output1Data, kgenResult, crossingFromGrid>>
  /\ UNCHANGED allButGridPath

BandGridNext == CallBuildWien2kBandGrid

(***************************************************************************)
(* buildEnergyGrid: inputs and call.                                       *)
(***************************************************************************)
ExpandedKPoint(x, y, z, e, origin) ==
  [kx |-> x, ky |-> y, kz |-> z, weight |-> 1, energies |-> e, originalIndex |-> origin]

\* Expanded k-points as expandToFullBZ returns them: coordinates in
\* [-0.5, 0.5), on the nodes of the source grid and between them, energies
\* that a Float32Array holds and energies that it rounds.
ExpandedPool ==
  { ExpandedKPoint(-Half, -Half, -Half, <<4, 8>>, 0),
    ExpandedKPoint(0, -Half, -Half, <<-4, 12>>, 0),
    ExpandedKPoint(-1, -Half, -Half, <<8>>, 1),
    ExpandedKPoint(0, 0, 0, <<12, -8>>, 1),
    ExpandedKPoint(1, 0, -Half, <<2, 6>>, 2),
    ExpandedKPoint(-Half, 0, 0, <<-6, 5>>, 2) }

\* gridSize, sourceGridSize and bandIndices tried (the indices are 0-based;
\* an empty list stands for all bands).
OutputGridSizes == {1, 2, 3}
SourceGridSizes == {1, 2}
BandIndexLists == { <<>>, <<0>>, <<1>>, <<1, 0>>, <<2>> }

BuildIdle == buildArgs = Null /\ builtGrid = Null
SampleIdle == sampleArgs = Null /\ sampleOut = Null
CubeIdle == cubeArgs = Null /\ cubeOut = Null
InterpIdle == BuildIdle /\ SampleIdle /\ CubeIdle
LookupIdle == lookupArgs = Null /\ lookupOut = Null
ValueIdle == valueArgs = Null /\ valueOut = Null /\ valueMoved = Null
HeapIdle == heap = <<>> /\ heapGrid = Null /\ heapShifted = Null
PageIdle ==
  /\ stored = <<>> /\ fermiSurfaces = <<>> /\ selectedId = 0
  /\ pageRawData = Null /\ pageEnergyGrid = Null /\ pageCrossingBands = <<>>
  /\ enabledBands = {} /\ isLoading = FALSE /\ isProcessing = FALSE
  /\ showImportPanel = FALSE /\ error = Null /\ pending = <<>> /\ started = 0
FermiIdle ==
  /\ fermiArgs = Null /\ fermiFromScf = <<>> /\ fermiFromOutput2 = <<>>
  /\ LookupIdle /\ ValueIdle /\ HeapIdle /\ PageIdle

BuildInit ==
  /\ \E kps \in SeqsUpTo(ExpandedPool, MaxK), g \in OutputGridSizes, s \in SourceGridSizes,
        bi \in BandIndexLists :
       buildArgs = [expandedKPoints |-> kps, gridSize |-> g, bandIndices |-> bi,
                    fermiEnergy |-> 3, sourceGridSize |-> s]
  /\ builtGrid = Null

CallBuildEnergyGrid ==
  /\ buildArgs # Null
  /\ builtGrid = Null
  /\ builtGrid' = buildEnergyGrid(buildArgs.expandedKPoints, buildArgs.gridSize,
                                  buildArgs.bandIndices, buildArgs.fermiEnergy,
                                  buildArgs.sourceGridSize)
  /\ UNCHANGED <<buildArgs, sampleVars, cubeVars>>
  /\ UNCHANGED allButInterp

BuildNext == CallBuildEnergyGrid

(***************************************************************************)
(* sampleGridEnergy: inputs and call.                                      *)
(***************************************************************************)
\* Grid dimensions tried, and the two bands of every sampled grid.
MaxDim == 3
SampledBands == 2

\* A grid whose cells all hold different single-precision values.
SampledGrid(nx, ny, nz) ==
  EnergyGrid(nx, ny, nz,
             [b \in 1..SampledBands |->
                [i \in 1..(nx * ny * nz) |-> F32Step * (i + (b - 1) * nx * ny * nz)]],
             0)

\* Query coordinates as numerators over QueryDen: the lattice nodes of the
\* dimensions 1, 2 and 3 (-6; 0; -2 and 2), a point between nodes (5) and
\* a point below the zone (-7).
QueryDen == 12
QueryCoords == {-7, -6, -2, 0, 2, 5}

SampleInit ==
  /\ \E nx \in 1..MaxDim, ny \in 1..MaxDim, nz \in 1..MaxDim, band \in 0..(SampledBands - 1),
        kx \in QueryCoords, ky \in QueryCoords, kz \in QueryCoords :
       sampleArgs = [grid |-> SampledGrid(nx, ny, nz), bandArrayIndex |-> band,
                     kx |-> kx, ky |-> ky, kz |-> kz]
  /\ sampleOut = Null

CallSampleGridEnergy ==
  /\ sampleArgs # Null
  /\ sampleOut = Null
  /\ sampleOut' = sampleGridEnergy(sampleArgs.grid, sampleArgs.bandArrayIndex,
                                   sampleArgs.kx, sampleArgs.ky, sampleArgs.kz, QueryDen)
  /\ UNCHANGED <<sampleArgs, buildVars, cubeVars>>
  /\ UNCHANGED allButInterp

SampleNext == CallSampleGridEnergy

(***************************************************************************)
(* findInterpolationCube: inputs and call.                                 *)
(***************************************************************************)
\* Query coordinates as numerators over QueryDen, inside the zone, on its
\* edges and on both sides outside it.
CubeCoords == {-13, -12, -7, -6, -5, -2, -1, 0, 1, 2, 5, 6, 11, 12}

\* The k-points of the lookup map: none, or two of the pool.
CubeKPoints ==
  { <<>>,
    << ExpandedKPoint(-Half, -Half, -Half, <<4, 8>>, 0), ExpandedKPoint(0, 0, 0, <<12, -8>>, 1) >> }

CubeInit ==
  /\ \E kps \in CubeKPoints, n \in 1..MaxDim,
        kx \in CubeCoords, ky \in CubeCoords, kz \in CubeCoords :
       cubeArgs = [kx |-> kx, ky |-> ky, kz |-> kz, expandedKPoints |-> kps, gridSize |-> n]
  /\ cubeOut = Null

CallFindInterpolationCube ==
  /\ cubeArgs # Null
  /\ cubeOut = Null
  /\ cubeOut' = findInterpolationCube(cubeArgs.kx, cubeArgs.ky, cubeArgs.kz, QueryDen,
                                      buildKPointLookupMap(cubeArgs.expandedKPoints,
                                                           cubeArgs.gridSize),
                                      cubeArgs.gridSize)
  /\ UNCHANGED <<cubeArgs, buildVars, sampleVars>>
  /\ UNCHANGED allButInterp

CubeNext == CallFindInterpolationCube

(***************************************************************************)
(* parseFermiFromScf and parseFermiFromOutput2: inputs and calls.          *)
(***************************************************************************)
\* Lines of case.scf and case.output2: text, and :FER lines whose captured
\* text [-\d.]+ is a number (in Rydberg) or parses to NaN (as "-" does).
MaxLines == 3
FermiLines == { TextLine, FerLine(0), FerLine(1), FerLine(-2), FerLine(NaN) }
FermiContents == SeqsUpTo(FermiLines, MaxLines)

\* case.output2 holds the lines of case.scf in reverse order, so that the
\* two contents differ in their last tagged line.
Reversed(lines) == [p \in 1..Len(lines) |-> lines[Len(lines) + 1 - p]]

FermiInit ==
  /\ \E s \in FermiContents : fermiArgs = [scf |-> s, output2 |-> Reversed(s)]
  /\ fermiFromScf = <<>>
  /\ fermiFromOutput2 = <<>>

CallParseFermiFromScf ==
  /\ fermiArgs # Null
  /\ fermiFromScf = <<>>
  /\ fermiFromScf' = <<parseFermiFromScf(fermiArgs.scf)>>
  /\ UNCHANGED <<fermiArgs, fermiFromOutput2>>
  /\ UNCHANGED allButFermi

CallParseFermiFromOutput2 ==
  /\ fermiArgs # Null
  /\ fermiFromOutput2 = <<>>
  /\ fermiFromOutput2' = <<parseFermiFromOutput2(fermiArgs.output2)>>
  /\ UNCHANGED <<fermiArgs, fermiFromScf>>
  /\ UNCHANGED allButFermi

FermiNext == CallParseFermiFromScf \/ CallParseFermiFromOutput2

(***************************************************************************)
(* parseKlist on damaged k-lists: inputs.                                  *)
(***************************************************************************)
\* The i-th record of a k-list, "i  i  -1  0  2  i.0", whole ("good"), with
\* one field replaced by a word ("index", "kx", "ky", "kz", "div",
\* "weight"), with the divisor 0 ("zero") or without its weight ("short").
RecordShapes == {"good", "index", "kx", "ky", "kz", "div", "weight", "zero", "short"}
KlistField(shape, field, value) == IF shape = field THEN Word ELSE NumToken(value)
KlistRecord(shape, i) ==
  [parts |-> << KlistField(shape, "index", i), KlistField(shape, "kx", i),
                KlistField(shape, "ky", -1), KlistField(shape, "kz", 0),
                IF shape = "zero" THEN NumToken(0) ELSE KlistField(shape, "div", 2) >>
             \o (IF shape = "short" THEN <<>>
                 ELSE IF shape = "weight" THEN <<Word>> ELSE <<FloatToken(i)>>),
   divGrid |-> NoMatch,
   total |-> NoMatch]
DamagedKlists ==
  { [i \in 1..Len(shapes) |-> KlistRecord(shapes[i], i)] \o <<KlistEnd>> :
      shapes \in SeqsUpTo(RecordShapes, MaxSamples) }

\* K-lists of every shape, the other files small and well-formed.
GenericKlistInit ==
  /\ klist \in DamagedKlists
  /\ energy = EnergyBlock(<<-1, 1>>) \o EnergyBlock(<<1, 1>>)
  /\ spinOrbit = FALSE
  /\ scf = <<FerLine(0)>>
  /\ struct = <<TitleLine, TitleLine, TitleLine, LatticeLine, SymHeaderLine(1)>>
              \o NumberedBlocks(<<IdentityBlock>>, 1)
  /\ GenericResultsInit

KlistNext == CallParseWien2kFermiData

GridsNext ==
  \/ CallBuildEnergyGrid
  \/ CallBuildWien2kBandGrid
  \/ CallShiftToFermiLevel
  \/ CallShiftToFermiLevelAgain

(***************************************************************************)
(* parseOutput1 on listings of every shape: inputs.                        *)
(***************************************************************************)
\* A listing whose j-th K= block lists counts[j] energies; `first` moves the
\* values so that listings of one shape differ.
Output1ByCounts(counts, first) ==
  Flatten([j \in 1..Len(counts) |->
             Output1Block([b \in 1..counts[j] |-> ((j + b + first) % 3) - 1])])

GridOutput1Init ==
  /\ \E n \in 0..MaxSamples, first \in 0..2 :
       \E counts \in [1..n -> 0..MaxLevels] : output1 = Output1ByCounts(counts, first)
  /\ output2 = <<TextLine>>
  /\ outputkgen = <<>>
  /\ GridPathResultsInit

Output1Next == CallParseOutput1

\* ---- buildKPointLookupMap on its own.
\* Expanded k-points with kx and ky on the quarters of [-0.5, 0.5), as
\* expandToFullBZ wraps them, told apart by their energies.
LookupCoords == {-Half, -1, 0, 1}
LookupPool ==
  { ExpandedKPoint(x, y, -Half, <<e>>, 0) : x \in LookupCoords, y \in LookupCoords, e \in {4, 8} }

LookupInit ==
  /\ \E kps \in SeqsUpTo(LookupPool, MaxK), n \in 1..MaxDim :
       lookupArgs = [expandedKPoints |-> kps, gridSize |-> n]
  /\ lookupOut = Null

CallBuildKPointLookupMap ==
  /\ lookupArgs # Null
  /\ lookupOut = Null
  /\ lookupOut' = buildKPointLookupMap(lookupArgs.expandedKPoints, lookupArgs.gridSize)
  /\ UNCHANGED <<lookupArgs, valueVars, heapVars, pageVars, allButLate>>

LookupNext == CallBuildKPointLookupMap

\* ---- getGridValue on its own.
\* Indices below, inside and above the grid, and whole periods added to them.
GridSteps == {-4, -1, 0, 2, 5}
GridPeriods == { <<0, 0, 0>>, <<1, 0, 0>>, <<-1, 2, 0>>, <<0, -2, 1>>, <<-3, 1, -1>>, <<2, -1, 3>> }

ValueInit ==
  /\ \E nx \in 1..MaxDim, ny \in 1..MaxDim, nz \in 1..MaxDim, band \in 0..(SampledBands - 1),
        ix \in GridSteps, iy \in GridSteps, iz \in GridSteps, abc \in GridPeriods :
       valueArgs = [grid |-> SampledGrid(nx, ny, nz), bandArrayIndex |-> band,
                    ix |-> ix, iy |-> iy, iz |-> iz, a |-> abc[1], b |-> abc[2], c |-> abc[3]]
  /\ valueOut = Null
  /\ valueMoved = Null

\* getGridValue(grid, band, ix, iy, iz): the flat index it reads and the value.
CallGetGridValue ==
  /\ valueArgs # Null
  /\ valueOut = Null
  /\ valueOut' =
       [idx |-> GridIndex(valueArgs.grid, valueArgs.ix, valueArgs.iy, valueArgs.iz),
        value |-> getGridValue(valueArgs.grid, valueArgs.bandArrayIndex,
                               valueArgs.ix, valueArgs.iy, valueArgs.iz)]
  /\ UNCHANGED <<valueArgs, valueMoved, lookupVars, heapVars, pageVars, allButLate>>

\* getGridValue(grid, band, ix + a * nx, iy + b * ny, iz + c * nz)
CallGetGridValueMoved ==
  /\ valueArgs # Null
  /\ valueMoved = Null
  /\ LET g == valueArgs.grid
         mx == valueArgs.ix + valueArgs.a * g.nx
         my == valueArgs.iy + valueArgs.b * g.ny
         mz == valueArgs.iz + valueArgs.c * g.nz
     IN  valueMoved' = [idx |-> GridIndex(g, mx, my, mz),
                        value |-> getGridValue(g, valueArgs.bandArrayIndex, mx, my, mz)]
  /\ UNCHANGED <<valueArgs, valueOut, lookupVars, heapVars, pageVars, allButLate>>

ValueNext == CallGetGridValue \/ CallGetGridValueMoved

\* ---- shiftToFermiLevel on buffers.
\* Objects and Float32Arrays live in the heap, a list indexed by address; a
\* reference is a record holding the address.  A grid object holds the
\* references of its band arrays in `data`.
Ref(a) == [ref |-> a]

\* The mutant shifts the cells of the argument's buffers and sets the
\* argument's fermiEnergy to 0; it returns the argument.
ShiftInPlace(h, g) ==
  LET obj == h[g.ref]
      bufs == { obj.data[b].ref : b \in 1..Len(obj.data) }
  IN  [heap |-> [a \in 1..Len(h) |->
                   IF a \in bufs
                     THEN [i \in 1..Len(h[a]) |-> Fround(h[a][i] - obj.fermiEnergy)]
                   ELSE IF a = g.ref THEN [obj EXCEPT !.fermiEnergy = 0]
                   ELSE h[a]],
       result |-> g]

\* grid.data.map(bandData => new Float32Array(...) filled with
\* bandData[i] - grid.fermiEnergy), then a new object { ...grid, data:
\* newData, fermiEnergy: 0 }: the new arrays and the new object are
\* allocated after what the heap holds, nothing of it is written.
shiftToFermiLevelOnHeap(h, g) ==
  LET obj == h[g.ref]
      nb == Len(obj.data)
      newArray(b) == [i \in 1..Len(h[obj.data[b].ref]) |->
                        Fround(h[obj.data[b].ref][i] - obj.fermiEnergy)]
      newObj == [obj EXCEPT !.data = [b \in 1..nb |-> Ref(Len(h) + b)], !.fermiEnergy = 0]
  IN  [heap |-> [a \in 1..(Len(h) + nb + 1) |->
                   IF a <= Len(h) THEN h[a]
                   ELSE IF a <= Len(h) + nb THEN newArray(a - Len(h))
                   ELSE newObj],
       result |-> Ref(Len(h) + nb + 1)]

\* The heap after buildWien2kBandGrid: the band arrays, then the grid object
\* that rawData.grid refers to.
HeapInit ==
  /\ \E d \in GridDims, nb \in 0..MaxBands, fe \in FermiEnergies :
       \E data \in [1..nb -> Float32Arrays(d[1] * d[2] * d[3])] :
         heap = [a \in 1..(nb + 1) |->
                   IF a <= nb THEN data[a]
                   ELSE EnergyGrid(d[1], d[2], d[3], [b \in 1..nb |-> Ref(b)], fe)]
  /\ heapGrid = [grid |-> Ref(Len(heap)), before |-> heap]
  /\ heapShifted = Null

\* const shiftedGrid = shiftToFermiLevel(data.grid)
CallShiftToFermiLevelOnHeap ==
  /\ heapGrid # Null
  /\ heapShifted = Null
  /\ LET r == shiftToFermiLevelOnHeap(heap, heapGrid.grid)
     IN  /\ heap' = r.heap
         /\ heapShifted' = r.result
  /\ UNCHANGED <<heapGrid, lookupVars, valueVars, pageVars, allButLate>>

HeapNext == CallShiftToFermiLevelOnHeap

\* ---- FermiSurfacePage.
\* Surfaces are numbered in the order the backend created them; NoId is the
\* null of selectedId.
NoId == 0
MaxStored == 3
MaxOps == 2

CaseName(id) == [name |-> "case", of |-> id]
UnknownCase == [name |-> "unknown", of |-> 0]

\* A FermiSurfaceInfo
Surface(id) == [id |-> id, case_name |-> CaseName(id)]

\* The files of a surface, which loadFermiSurfaceFiles resolves with: two k-points
\* with two bands each on a 2 x 1 x 1 mesh, Fermi energy 1 Ry.  In the
\* surfaces with an odd number band 0 crosses it and band 1 lies above it,
\* in those with an even number both bands cross it, and the levels differ
\* from surface to surface; every fourth surface has a case.outputkgen
\* without mesh.
SurfaceFiles(id) ==
  [output1 |-> IF id % 2 = 1
                 THEN Output1Block(<<0, 2 + id>>) \o Output1Block(<<2, 2 + id>>)
                 ELSE Output1Block(<<0 - id, 0>>) \o Output1Block(<<2, 2 + id>>),
   output2 |-> <<FerLine(1)>>,
   outputkgen |-> IF id % 4 = 0
                    THEN <<[kind |-> "header"]>> \o ListingRows(<< <<0, 0, 0>>, <<1, 0, 0>> >>, <<1, 2>>)
                    ELSE <<DivisionLine(<<1, 0, 0>>), [kind |-> "header"]>>
                           \o ListingRows(<< <<0, 0, 0>>, <<1, 0, 0>> >>, <<1, 2>>)]

\* The value a backend call rejects with.
Rejected(value) == [rejected |-> value]

\* The mutant yields null.
StringOfNothing(err) == Null
\* String(err): of an Error its name and message, of a rejection value the
\* value.
StringOf(err) ==
  IF IsThrown(err) THEN [string |-> <<"Error: ", err.error>>]
  ELSE [string |-> <<err.rejected>>]

\* fermiSurfaces.find(s => s.id === id), null when there is none
FindSurface(surfaces, id) ==
  IF \E i \in 1..Len(surfaces) : surfaces[i].id = id
    THEN surfaces[CHOOSE i \in 1..Len(surfaces) :
                    surfaces[i].id = id /\ \A j \in 1..(i - 1) : surfaces[j].id # id]
    ELSE Null

\* fermiSurfaces.find(s => s.id !== id)?.id || null
FindOtherId(surfaces, id) ==
  IF \E i \in 1..Len(surfaces) : surfaces[i].id # id
    THEN surfaces[CHOOSE i \in 1..Len(surfaces) :
                    surfaces[i].id # id /\ \A j \in 1..(i - 1) : surfaces[j].id = id].id
    ELSE NoId

\* prev.filter(s => s.id !== id)
RECURSIVE FilterOut(_, _)
FilterOut(surfaces, id) ==
  IF surfaces = <<>> THEN <<>>
  ELSE IF Head(surfaces).id = id THEN FilterOut(Tail(surfaces), id)
  ELSE <<Head(surfaces)>> \o FilterOut(Tail(surfaces), id)

\* The mutant enables every crossing band and the band after the last.
EnableOneMore(crossing) ==
  { crossing[i] : i \in 1..Len(crossing) } \cup { Len(crossing) }
\* new Set(crossing.slice(0, 4))
FirstFour(crossing) == { crossing[i] : i \in 1..(IF Len(crossing) < 4 THEN Len(crossing) ELSE 4) }

\* The mutant builds the new set from nothing.
ToggleAlone(prev, bandIndex) == IF bandIndex \in prev THEN {} ELSE {bandIndex}
\* The updater of toggleBand: a copy of prev without bandIndex if it has it,
\* with it otherwise.
ToggledSet(prev, bandIndex) ==
  IF bandIndex \in prev THEN prev \ {bandIndex} ELSE prev \cup {bandIndex}

\* The meshes memo: the bands marchingCubes is invoked for, none without a
\* grid, and of the enabled bands those that index a band array.
MarchingCubesBands ==
  IF pageEnergyGrid = Null THEN {}
  ELSE { b \in enabledBands : ~(b < 0 \/ b >= Len(pageEnergyGrid.data)) }

\* The surfaces the backend lists: those it holds, oldest first.
RECURSIVE ListedFrom(_, _)
ListedFrom(held, id) ==
  IF id > Len(held) THEN <<>>
  ELSE (IF held[id].held THEN <<Surface(id)>> ELSE <<>>) \o ListedFrom(held, id + 1)

Without(calls, i) == [j \in 1..(Len(calls) - 1) |-> IF j < i THEN calls[j] ELSE calls[j + 1]]

\* The cards of the page take a click: the list is loaded and not empty (the
\* page without surfaces shows a button only), and neither the import panel
\* nor the processing overlay, which cover the page, is shown.
PageClickable ==
  /\ ~isLoading
  /\ Len(fermiSurfaces) > 0
  /\ ~showImportPanel
  /\ ~isProcessing

\* The mount: every state at its useState value, listFermiSurfaces in
\* flight with the selectedId of the first render in its closure; the load
\* effect of the first render found selectedId null.
PageInit ==
  /\ \E n \in 0..MaxStored :
       stored = [id \in 1..n |-> [held |-> TRUE, files |-> SurfaceFiles(id)]]
  /\ fermiSurfaces = <<>>
  /\ selectedId = NoId
  /\ pageRawData = Null
  /\ pageEnergyGrid = Null
  /\ pageCrossingBands = <<>>
  /\ enabledBands = {}
  /\ isLoading = TRUE
  /\ isProcessing = FALSE
  /\ showImportPanel = FALSE
  /\ error = Null
  /\ pending = << [call |-> "list", selectedId |-> NoId] >>
  /\ started = 0

\* The render after a handler's state updates and the load effect, which
\* runs when selectedId changed or fermiSurfaces was set to a new array.
\* The other arguments are the values the handler leaves: the state updates
\* of one handler or continuation are applied together, in one render.  No
\* run of the effect ends an earlier one.
Render(surfaces, surfacesSet, sel, processing, err, calls) ==
  /\ fermiSurfaces' = surfaces
  /\ selectedId' = sel
  /\ IF ~(surfacesSet \/ sel # selectedId)
       THEN /\ isProcessing' = processing
            /\ error' = err
            /\ pending' = calls
            /\ UNCHANGED <<pageRawData, pageEnergyGrid, pageCrossingBands>>
     ELSE IF sel = NoId
       THEN /\ pageRawData' = Null
            /\ pageEnergyGrid' = Null
            /\ pageCrossingBands' = <<>>
            /\ isProcessing' = processing
            /\ error' = err
            /\ pending' = calls
     ELSE /\ isProcessing' = TRUE
          /\ error' = Null
          /\ pending' = Append(calls, [call |-> "load", selectedId |-> sel,
                                       fermiSurfaces |-> surfaces])
          /\ UNCHANGED <<pageRawData, pageEnergyGrid, pageCrossingBands>>

\* listFermiSurfaces resolves.
ListResolves ==
  \E i \in 1..Len(pending) :
    /\ pending[i].call = "list"
    /\ LET surfaces == ListedFrom(stored, 1)
           sel == IF Len(surfaces) > 0 /\ pending[i].selectedId = NoId
                    THEN surfaces[1].id ELSE selectedId
       IN  Render(surfaces, TRUE, sel, isProcessing, error, Without(pending, i))
    /\ isLoading' = FALSE
    /\ UNCHANGED <<stored, enabledBands, showImportPanel, started>>
    /\ UNCHANGED <<lookupVars, valueVars, heapVars, allButLate>>

\* listFermiSurfaces rejects.
ListRejects ==
  \E i \in 1..Len(pending) :
    /\ pending[i].call = "list"
    /\ pending' = Without(pending, i)
    /\ isLoading' = FALSE
    /\ UNCHANGED <<stored, fermiSurfaces, selectedId, pageRawData, pageEnergyGrid,
                   pageCrossingBands, enabledBands, isProcessing, showImportPanel, error,
                   started>>
    /\ UNCHANGED <<lookupVars, valueVars, heapVars, allButLate>>

\* A click on a surface of the list.
SelectSurface ==
  \E i \in 1..Len(fermiSurfaces) :
    /\ PageClickable
    /\ started < MaxOps
    /\ fermiSurfaces[i].id # selectedId
    /\ Render(fermiSurfaces, FALSE, fermiSurfaces[i].id, isProcessing, error, pending)
    /\ started' = started + 1
    /\ UNCHANGED <<stored, enabledBands, isLoading, showImportPanel>>
    /\ UNCHANGED <<lookupVars, valueVars, heapVars, allButLate>>

\* loadFermiSurfaceFiles resolves: the files are parsed, and the grid, the
\* crossing bands, the enabled bands and the shifted grid are set, or what
\* the parsing throws is caught.
LoadResolves ==
  \E i \in 1..Len(pending) :
    /\ pending[i].call = "load"
    /\ pending[i].selectedId \in 1..Len(stored)
    /\ stored[pending[i].selectedId].held
    /\ LET files == stored[pending[i].selectedId].files
           surface == FindSurface(pending[i].fermiSurfaces, pending[i].selectedId)
           caseName == IF surface = Null THEN UnknownCase ELSE surface.case_name
       IN  \E data \in { buildWien2kBandGrid(files.output1, files.output2, files.outputkgen,
                                              caseName) } :
             IF IsThrown(data)
               THEN /\ error' = StringOf(data)
                    /\ UNCHANGED <<pageRawData, pageEnergyGrid, pageCrossingBands,
                                   enabledBands>>
             ELSE \E crossing \in { findFermiCrossingBandsFromGrid(data.energiesByKPoint,
                                                                    data.grid.fermiEnergy) } :
                    /\ pageRawData' = data
                    /\ pageCrossingBands' = crossing
                    /\ enabledBands' = FirstFour(crossing)
                    /\ pageEnergyGrid' = shiftToFermiLevel(data.grid)
                    /\ UNCHANGED error
    /\ isProcessing' = FALSE
    /\ pending' = Without(pending, i)
    /\ UNCHANGED <<stored, fermiSurfaces, selectedId, isLoading, showImportPanel, started>>
    /\ UNCHANGED <<lookupVars, valueVars, heapVars, allButLate>>

\* loadFermiSurfaceFiles rejects.
LoadRejects ==
  \E i \in 1..Len(pending) :
    /\ pending[i].call = "load"
    /\ error' = StringOf(Rejected("load failed"))
    /\ isProcessing' = FALSE
    /\ pending' = Without(pending, i)
    /\ UNCHANGED <<stored, fermiSurfaces, selectedId, pageRawData, pageEnergyGrid,
                   pageCrossingBands, enabledBands, isLoading, showImportPanel, started>>
    /\ UNCHANGED <<lookupVars, valueVars, heapVars, allButLate>>

\* A click on the checkbox of a band of the band selector.
ToggleBand ==
  \E i \in 1..Len(pageCrossingBands) :
    /\ PageClickable
    /\ enabledBands' = ToggledSet(enabledBands, pageCrossingBands[i])
    /\ UNCHANGED <<stored, fermiSurfaces, selectedId, pageRawData, pageEnergyGrid,
                   pageCrossingBands, isLoading, showImportPanel, isProcessing, error, pending, started>>
    /\ UNCHANGED <<lookupVars, valueVars, heapVars, allButLate>>

\* A click on the cross of the error banner.
DismissError ==
  /\ PageClickable
  /\ error # Null
  /\ error' = Null
  /\ UNCHANGED <<stored, fermiSurfaces, selectedId, pageRawData, pageEnergyGrid,
                 pageCrossingBands, enabledBands, isLoading, showImportPanel, isProcessing, pending, started>>
  /\ UNCHANGED <<lookupVars, valueVars, heapVars, allButLate>>

\* A click on "+ Import", or on "Import Wien2k Files" of the page without
\* surfaces, which has no processing overlay.
OpenImportPanel ==
  /\ ~isLoading
  /\ ~showImportPanel
  /\ Len(fermiSurfaces) = 0 \/ ~isProcessing
  /\ showImportPanel' = TRUE
  /\ UNCHANGED <<stored, fermiSurfaces, selectedId, pageRawData, pageEnergyGrid,
                 pageCrossingBands, enabledBands, isLoading, isProcessing, error, pending,
                 started>>
  /\ UNCHANGED <<lookupVars, valueVars, heapVars, allButLate>>

\* A click on Cancel or on the cross of the import panel.
CloseImportPanel ==
  /\ ~isLoading
  /\ showImportPanel
  /\ showImportPanel' = FALSE
  /\ UNCHANGED <<stored, fermiSurfaces, selectedId, pageRawData, pageEnergyGrid,
                 pageCrossingBands, enabledBands, isLoading, isProcessing, error, pending,
                 started>>
  /\ UNCHANGED <<lookupVars, valueVars, heapVars, allButLate>>

\* handleImport up to its await, with the four files chosen; the button is
\* in the import panel and disabled while isProcessing.
StartImport ==
  /\ ~isLoading
  /\ showImportPanel
  /\ ~isProcessing
  /\ started < MaxOps
  /\ isProcessing' = TRUE
  /\ pending' = Append(pending, [call |-> "import"])
  /\ started' = started + 1
  /\ UNCHANGED <<stored, fermiSurfaces, selectedId, pageRawData, pageEnergyGrid,
                 pageCrossingBands, enabledBands, isLoading, showImportPanel, error>>
  /\ UNCHANGED <<lookupVars, valueVars, heapVars, allButLate>>

\* importFermiSurface resolves with the info of the surface it created.
ImportResolves ==
  \E i \in 1..Len(pending) :
    /\ pending[i].call = "import"
    /\ LET info == Surface(Len(stored) + 1)
       IN  /\ stored' = Append(stored, [held |-> TRUE, files |-> SurfaceFiles(info.id)])
           /\ Render(<<info>> \o fermiSurfaces, TRUE, info.id, FALSE, error, Without(pending, i))
    /\ showImportPanel' = FALSE
    /\ UNCHANGED <<enabledBands, isLoading, started>>
    /\ UNCHANGED <<lookupVars, valueVars, heapVars, allButLate>>

\* importFermiSurface rejects.
ImportRejects ==
  \E i \in 1..Len(pending) :
    /\ pending[i].call = "import"
    /\ error' = StringOf(Rejected("import failed"))
    /\ isProcessing' = FALSE
    /\ pending' = Without(pending, i)
    /\ UNCHANGED <<stored, fermiSurfaces, selectedId, pageRawData, pageEnergyGrid,
                   pageCrossingBands, enabledBands, isLoading, showImportPanel, started>>
    /\ UNCHANGED <<lookupVars, valueVars, heapVars, allButLate>>

\* handleDelete up to its await: the call holds the selectedId and the
\* fermiSurfaces of the render the handler belongs to.
StartDelete ==
  \E i \in 1..Len(fermiSurfaces) :
    /\ PageClickable
    /\ started < MaxOps
    /\ pending' = Append(pending, [call |-> "delete", id |-> fermiSurfaces[i].id,
                                   selectedId |-> selectedId, fermiSurfaces |-> fermiSurfaces])
    /\ started' = started + 1
    /\ UNCHANGED <<stored, fermiSurfaces, selectedId, pageRawData, pageEnergyGrid,
                   pageCrossingBands, enabledBands, isLoading, showImportPanel, isProcessing, error>>
    /\ UNCHANGED <<lookupVars, valueVars, heapVars, allButLate>>

\* deleteFermiSurface resolves.
DeleteResolves ==
  \E i \in 1..Len(pending) :
    /\ pending[i].call = "delete"
    /\ LET id == pending[i].id
           sel == IF pending[i].selectedId = id
                    THEN FindOtherId(pending[i].fermiSurfaces, id) ELSE selectedId
       IN  /\ stored' = [stored EXCEPT ![id].held = FALSE]
           /\ Render(FilterOut(fermiSurfaces, id), TRUE, sel, isProcessing, error,
                     Without(pending, i))
    /\ UNCHANGED <<enabledBands, isLoading, showImportPanel, started>>
    /\ UNCHANGED <<lookupVars, valueVars, heapVars, allButLate>>

\* deleteFermiSurface rejects: the error is logged.
DeleteRejects ==
  \E i \in 1..Len(pending) :
    /\ pending[i].call = "delete"
    /\ pending' = Without(pending, i)
    /\ UNCHANGED <<stored, fermiSurfaces, selectedId, pageRawData, pageEnergyGrid,
                   pageCrossingBands, enabledBands, isLoading, showImportPanel, isProcessing, error, started>>
    /\ UNCHANGED <<lookupVars, valueVars, heapVars, allButLate>>

PageNext ==
  \/ ListResolves \/ ListRejects \/ SelectSurface \/ LoadResolves \/ LoadRejects
  \/ ToggleBand \/ DismissError \/ OpenImportPanel \/ CloseImportPanel
  \/ StartImport \/ ImportResolves \/ ImportRejects
  \/ StartDelete \/ DeleteResolves \/ DeleteRejects

(***************************************************************************)
(* Claims about the symmetry expansion (checked under SpecExpand).         *)
(***************************************************************************)
ExpandDone == expandPc = "done"

\* The first Brillouin zone [-0.5, 0.5), and the reduction into it, stated
\* without the loops of wrapToBZ.
InZone(k) ==
  /\ -Half <= k.kx /\ k.kx < Half
  /\ -Half <= k.ky /\ k.ky < Half
  /\ -Half <= k.kz /\ k.kz < Half
ZoneOf(k) ==
  Coord(((k.kx + Half) % One) - Half, ((k.ky + Half) % One) - Half, ((k.kz + Half) % One) - Half)

\* The periodic metric of the specification: per axis min(|d|, 1 - |d|) < eps.
PeriodicDistance(a, b) == Min2(Abs(a - b), One - Abs(a - b))
EquivalentWithin(p, q, eps) ==
  /\ PeriodicDistance(p.kx, q.kx) < eps
  /\ PeriodicDistance(p.ky, q.ky) < eps
  /\ PeriodicDistance(p.kz, q.kz) < eps

SameCoordinates(p, q) == p.kx = q.kx /\ p.ky = q.ky /\ p.kz = q.kz

\* R * k, written out independently of applySymmetryToKPoint.
Dot(row, k) == row[1] * k.kx + row[2] * k.ky + row[3] * k.kz
Rotated(op, k) == Coord(Dot(op.rotation[1], k), Dot(op.rotation[2], k), Dot(op.rotation[3], k))

IsIdentity(op) == op.rotation = IdentityOp.rotation
IdentityOnly == Len(symmetryOps) = 1 /\ IsIdentity(symmetryOps[1])
HasIdentity == \E s \in 1..Len(symmetryOps) : IsIdentity(symmetryOps[s])

\* One expanded point per irreducible point, in order, same coordinates and
\* same energies.
ReproducesIrreducibleSet ==
  /\ Len(expandedPoints) = Len(irreducibleKPoints)
  /\ \A i \in 1..Len(irreducibleKPoints) :
       /\ SameCoordinates(expandedPoints[i], irreducibleKPoints[i])
       /\ expandedPoints[i].energies = irreducibleKPoints[i].energies

IrreducibleInZone == \A i \in 1..Len(irreducibleKPoints) : InZone(irreducibleKPoints[i])
IrreduciblePairwiseDistinct ==
  \A i, j \in 1..Len(irreducibleKPoints) :
    i < j => ~EquivalentWithin(irreducibleKPoints[i], irreducibleKPoints[j], tolerance)

\* C1 as stated: with only the identity operation, expandToFullBZ returns the
\* irreducible set exactly, for every list of irreducible k-points.
C1_IdentityReproducesEveryList == (ExpandDone /\ IdentityOnly) => ReproducesIrreducibleSet

\* C1 amended: with only the identity operation, expandToFullBZ returns one
\* expanded point per irreducible point, in the same order, with the same
\* coordinates and energies, for every list whose points lie in [-0.5, 0.5)
\* and are pairwise not equivalent within the tolerance.
C1_IdentityReproducesZoneList ==
  (ExpandDone /\ IdentityOnly /\ IrreducibleInZone /\ IrreduciblePairwiseDistinct)
    => ReproducesIrreducibleSet

C1_Witness ==
  /\ ExpandDone /\ IdentityOnly /\ IrreducibleInZone /\ IrreduciblePairwiseDistinct
  /\ Len(irreducibleKPoints) = 2
  /\ irreducibleKPoints[1].kx < 0
  /\ tolerance = 2
  /\ ReproducesIrreducibleSet

\* C2: in the result no two distinct expanded points are equivalent under the
\* periodic metric within the tolerance, and every expanded coordinate lies
\* in [-0.5, 0.5).
C2_NoTwoExpandedEquivalent ==
  ExpandDone =>
    /\ \A i, j \in 1..Len(expandedPoints) :
         i # j => ~EquivalentWithin(expandedPoints[i], expandedPoints[j], tolerance)
    /\ \A i \in 1..Len(expandedPoints) : InZone(expandedPoints[i])

\* Two points kept although they lie on opposite faces of the zone's
\* neighbourhood, and an image dropped as a duplicate.
C2_Witness ==
  /\ ExpandDone
  /\ tolerance = 2
  /\ Len(expandedPoints) >= 2
  /\ Len(expandedPoints) < Len(irreducibleKPoints) * Len(symmetryOps)
  /\ \E i, j \in 1..Len(expandedPoints) :
       Abs(expandedPoints[i].kx - expandedPoints[j].kx) = Half

\* The images generated before the identity image of the i-th irreducible
\* point: every image of an earlier point, and the images of the point itself
\* under the operations listed before the first identity.
FirstIdentity ==
  CHOOSE s \in 1..Len(symmetryOps) :
    IsIdentity(symmetryOps[s]) /\ \A t \in 1..(s - 1) : ~IsIdentity(symmetryOps[t])
ImagesBefore(i) ==
  { ZoneOf(Rotated(symmetryOps[s], irreducibleKPoints[j])) :
      j \in 1..(i - 1), s \in 1..Len(symmetryOps) }
  \cup { ZoneOf(Rotated(symmetryOps[s], irreducibleKPoints[i])) : s \in 1..(FirstIdentity - 1) }
FirstOfItsOrbit(i) ==
  \A q \in ImagesBefore(i) : ~EquivalentWithin(q, irreducibleKPoints[i], tolerance)

ContainsOriginal(i) ==
  \E n \in 1..Len(expandedPoints) :
    /\ SameCoordinates(expandedPoints[n], irreducibleKPoints[i])
    /\ expandedPoints[n].originalIndex = i - 1

\* C3 as stated: whenever the list contains the identity, every irreducible
\* point is in the result with its own coordinates and originalIndex.
C3_IrreducibleSubsetAlways ==
  (ExpandDone /\ HasIdentity) => \A i \in 1..Len(irreducibleKPoints) : ContainsOriginal(i)

\* C3 amended: whenever the list contains the identity, the result contains,
\* for every irreducible index i, a point that is the wrapped point i or is
\* equivalent to it within the tolerance; it contains point i's own
\* coordinates with originalIndex = i when that point lies in [-0.5, 0.5) and
\* no image generated before its identity image is equivalent to it.
C3_IrreducibleCovered ==
  (ExpandDone /\ HasIdentity) =>
    \A i \in 1..Len(irreducibleKPoints) :
      /\ \E n \in 1..Len(expandedPoints) :
           \/ SameCoordinates(expandedPoints[n], ZoneOf(irreducibleKPoints[i]))
           \/ EquivalentWithin(expandedPoints[n], ZoneOf(irreducibleKPoints[i]), tolerance)
      /\ (InZone(irreducibleKPoints[i]) /\ FirstOfItsOrbit(i)) => ContainsOriginal(i)

\* The identity is not the first operation, and the second irreducible point
\* is kept with its own index although the first point has other images.
C3_Witness ==
  /\ ExpandDone /\ HasIdentity
  /\ FirstIdentity > 1
  /\ Len(irreducibleKPoints) = 2
  /\ InZone(irreducibleKPoints[2]) /\ FirstOfItsOrbit(2)
  /\ ContainsOriginal(2)
  /\ Len(expandedPoints) > 2

DiffersByInteger(a, b) == (a - b) % One = 0

\* C5: wrapToBZ returns components in [-0.5, 0.5) that differ from the
\* argument's by an integer, and wrapping the result again changes nothing.
C5_WrapIntoZoneIdempotent ==
  /\ wrapPc \in {"once", "twice"} =>
       /\ InZone(wrapOut)
       /\ DiffersByInteger(wrapOut.kx, wrapIn.kx)
       /\ DiffersByInteger(wrapOut.ky, wrapIn.ky)
       /\ DiffersByInteger(wrapOut.kz, wrapIn.kz)
  /\ wrapPc = "twice" => wrapOut2 = wrapOut

\* +0.5 has gone to -0.5, -0.5 has stayed, and 1.25 has come down to 0.25.
C5_Witness ==
  /\ wrapPc = "twice"
  /\ wrapIn.kx = Half /\ wrapOut2.kx = -Half
  /\ wrapIn.ky = -Half /\ wrapOut2.ky = -Half
  /\ wrapIn.kz = One + 1 /\ wrapOut2.kz = 1

(***************************************************************************)
(* Claims about shiftToFermiLevel (checked under SpecShift).               *)
(***************************************************************************)
Shifted == shiftPc \in {"once", "twice"}

SameShape(g, h) ==
  /\ h.nx = g.nx /\ h.ny = g.ny /\ h.nz = g.nz
  /\ Len(h.data) = Len(g.data)
  /\ \A b \in 1..Len(g.data) : Len(h.data[b]) = Len(g.data[b])

\* C7 as stated: the shifted grid has fermiEnergy 0, the same dimensions and
\* band count, and every cell is exactly the difference
\* grid.data[b][i] - grid.fermiEnergy.
C7_ShiftIsExactDifference ==
  Shifted =>
    /\ shifted.fermiEnergy = 0
    /\ SameShape(grid, shifted)
    /\ \A b \in 1..Len(grid.data) : \A i \in 1..Len(grid.data[b]) :
         shifted.data[b][i] = grid.data[b][i] - grid.fermiEnergy

\* C7 amended: the shifted grid has fermiEnergy 0, the same dimensions and
\* band count, and every cell is grid.data[b][i] - grid.fermiEnergy rounded
\* to single precision (the cell of a Float32Array): the exact difference
\* when that is a single-precision value, and otherwise within half a
\* single-precision step of it.
C7_ShiftIsRoundedDifference ==
  Shifted =>
    /\ shifted.fermiEnergy = 0
    /\ SameShape(grid, shifted)
    /\ \A b \in 1..Len(grid.data) : \A i \in 1..Len(grid.data[b]) :
         LET exact == grid.data[b][i] - grid.fermiEnergy
         IN  /\ shifted.data[b][i] % F32Step = 0
             /\ 2 * Abs(shifted.data[b][i] - exact) <= F32Step
             /\ exact % F32Step = 0 => shifted.data[b][i] = exact

\* A cell whose difference is not a single-precision value, one whose
\* difference is, in a grid of two bands.
C7_Witness ==
  /\ Shifted
  /\ Len(grid.data) = 2
  /\ grid.fermiEnergy # 0
  /\ \E b \in 1..Len(grid.data) : \E i \in 1..Len(grid.data[b]) :
       shifted.data[b][i] # grid.data[b][i] - grid.fermiEnergy
  /\ shifted.data[1][1] # 0

HasCells(g) == \E b \in 1..Len(g.data) : Len(g.data[b]) > 0

\* C8 as stated: for a grid whose fermiEnergy is not 0, shifting the shifted
\* grid subtracts the Fermi energy again, so its cell values differ from those
\* of the once-shifted grid.
C8_ReshiftDoubleSubtracts ==
  (shiftPc = "twice" /\ grid.fermiEnergy # 0 /\ HasCells(grid)) =>
    \E b \in 1..Len(shifted.data) : \E i \in 1..Len(shifted.data[b]) :
      shifted2.data[b][i] # shifted.data[b][i]

\* C8 amended: re-shifting is not guarded, but it does not double-subtract:
\* the first shift sets fermiEnergy to 0, so shifting the shifted grid
\* subtracts 0 and returns the same cell values and fermiEnergy 0.
C8_ReshiftChangesNothing ==
  shiftPc = "twice" =>
    /\ shifted2.fermiEnergy = 0
    /\ SameShape(shifted, shifted2)
    /\ \A b \in 1..Len(shifted.data) : \A i \in 1..Len(shifted.data[b]) :
         shifted2.data[b][i] = shifted.data[b][i]

\* A grid with a non-zero Fermi energy, shifted twice, whose first shift did
\* move the cells.
C8_Witness ==
  /\ shiftPc = "twice"
  /\ grid.fermiEnergy = F32Step
  /\ HasCells(grid)
  /\ shifted.data # grid.data
  /\ shifted2.data = shifted.data

(***************************************************************************)
(* Claims about the crossing bands.                                        *)
(***************************************************************************)
\* One row of energies per sample (k-point).
SampleRows(kPoints) == [n \in 1..Len(kPoints) |-> kPoints[n].energies]

\* Band b (from 0) has a sample strictly above and one strictly below.
CrossesFermi(rows, fermiEnergy, b) ==
  /\ \E n \in 1..Len(rows) : b + 1 <= Len(rows[n]) /\ rows[n][b + 1] > fermiEnergy
  /\ \E n \in 1..Len(rows) : b + 1 <= Len(rows[n]) /\ rows[n][b + 1] < fermiEnergy

\* The bands that have a sample at all.
BandsOf(rows) == { b \in 0..MaxLevels : \E n \in 1..Len(rows) : b + 1 <= Len(rows[n]) }

IsAscending(list) == \A i, j \in 1..Len(list) : i < j => list[i] < list[j]

ExactlyTheCrossingBands(list, rows, fermiEnergy) ==
  /\ IsAscending(list)
  /\ { list[i] : i \in 1..Len(list) } = { b \in BandsOf(rows) : CrossesFermi(rows, fermiEnergy, b) }

\* findFermiCrossingBandsFromGrid on the table of parseOutput1: exactly the
\* crossing bands, ascending.
GridCrossingExact ==
  gridPc = "done" =>
    ExactlyTheCrossingBands(crossingFromGrid, output1Data.energiesByKPoint,
                            parseFermiFromOutput2(output2))

\* findFermiCrossingBands on the data of parseWien2kFermiData: exactly the
\* crossing bands, ascending.
GenericCrossingExact ==
  genericPc = "done" =>
    ExactlyTheCrossingBands(crossingBands, SampleRows(rawData.kPoints), rawData.fermiEnergy)

\* C6: findFermiCrossingBands and findFermiCrossingBandsFromGrid return
\* exactly the band indices with a sample strictly above the Fermi energy and
\* a sample strictly below it, in ascending order without duplicates; a
\* sample equal to the Fermi energy counts as neither.
C6_CrossingBandsExact == GenericCrossingExact /\ GridCrossingExact

\* The first k-point of the energy listing has fewer bands than the others,
\* and a band it lacks crosses the Fermi energy.
C6_Witness ==
  /\ genericPc = "done"
  /\ Len(rawData.kPoints) >= 3
  /\ \E b \in BandsOf(SampleRows(rawData.kPoints)) :
       /\ b >= rawData.numBands
       /\ CrossesFermi(SampleRows(rawData.kPoints), rawData.fermiEnergy, b)
       /\ \A i \in 1..Len(crossingBands) : crossingBands[i] # b

(***************************************************************************)
(* Claims about parseStruct.                                               *)
(***************************************************************************)
\* No line of the structure file has the NUMBER OF SYMMETRY OPERATIONS header.
NoSymmetryHeader == \A p \in 1..Len(struct) : struct[p].symCount = NoMatch

\* C9: without a NUMBER OF SYMMETRY OPERATIONS line in the structure file,
\* parseStruct, and parseWien2kFermiData which calls it, abort with an error
\* instead of returning a result.
C9_MissingHeaderIsFatal ==
  NoSymmetryHeader =>
    /\ structResult # Null => IsThrown(structResult)
    /\ genericPc = "parsed" => IsThrown(rawData)

\* A structure file with lattice parameters and operation rows but no header
\* line, parsed by both functions: both return, with no operations.
C9_Witness ==
  /\ NoSymmetryHeader
  /\ Len(struct) > 5
  /\ structResult # Null
  /\ ~IsThrown(structResult)
  /\ structResult.symmetryOps = <<>>
  /\ genericPc = "parsed"
  /\ ~IsThrown(rawData)
  /\ rawData.symmetryOps = <<>>

(***************************************************************************)
(* Claims about parseOutputkgen.                                           *)
(***************************************************************************)
DivisionAt == FirstLineOfKind(outputkgen, {"division"})
ColumnHeaderAt == FirstLineOfKind(outputkgen, {"header"})

\* The final three integers of the mesh-division line, each plus one;
\* (0, 0, 0) when the line is absent or has fewer than three integers.
DivisionMesh ==
  IF DivisionAt = 0 THEN <<0, 0, 0>>
  ELSE LET ints == outputkgen[DivisionAt].ints
           n == Len(ints)
       IN  IF n < 3 THEN <<0, 0, 0>> ELSE <<ints[n - 2] + 1, ints[n - 1] + 1, ints[n] + 1>>
DivisionPoints == DivisionMesh[1] * DivisionMesh[2] * DivisionMesh[3]

\* The valid data rows after line `start`, in file order.
ValidRowsAfter(start) ==
  SelectSeq(SubSeq(outputkgen, start + 1, Len(outputkgen)),
            LAMBDA line : /\ line.kind = "numbers"
                          /\ Len(line.nums) >= 5
                          /\ \A n \in 1..Len(line.nums) : line.nums[n] # NaN)
RowEntry(line) ==
  [x |-> line.nums[2], y |-> line.nums[3], z |-> line.nums[4], relation |-> line.nums[5]]

KgenErrors ==
  /\ DivisionAt = 0 => IsThrown(kgenResult)
  /\ (ColumnHeaderAt # 0 /\ Len(ValidRowsAfter(ColumnHeaderAt)) < DivisionPoints)
       => IsThrown(kgenResult)

KgenSuccessShape ==
  ~IsThrown(kgenResult) =>
    /\ <<kgenResult.nx, kgenResult.ny, kgenResult.nz>> = DivisionMesh
    /\ Len(kgenResult.entries) = kgenResult.nx * kgenResult.ny * kgenResult.nz
    /\ LET rows == ValidRowsAfter(KgenHeaderLine(outputkgen))
       IN  /\ Len(kgenResult.entries) <= Len(rows)
           /\ \A i \in 1..Len(kgenResult.entries) : kgenResult.entries[i] = RowEntry(rows[i])

\* C10: parseOutputkgen raises an error when the mesh-division line is
\* absent, or when fewer than nx*ny*nz valid data rows follow the
\* point/coordinates/relation header; when it returns, (nx, ny, nz) are the
\* final three integers of the division line each plus one, and entries
\* holds exactly nx*ny*nz rows in file order.
C10_KgenErrorsAndShape == kgenResult # Null => (KgenErrors /\ KgenSuccessShape)

\* The same for the files whose division counts are not below -1; the
\* counts below -1 are what C10_KgenErrorsAndShape fails on.
C10_KgenShapeForCountsFromMinusOne ==
  (kgenResult # Null /\ \A line \in { outputkgen[p] : p \in 1..Len(outputkgen) } :
      line.kind = "division" => \A n \in 1..Len(line.ints) : line.ints[n] >= -1)
    => (KgenErrors /\ KgenSuccessShape)

\* A division line with a count of -2: the call returns a mesh with a
\* negative dimension and no entries.
C10_Witness ==
  /\ kgenResult # Null
  /\ ~IsThrown(kgenResult)
  /\ kgenResult.nx * kgenResult.ny * kgenResult.nz < 0
  /\ kgenResult.entries = <<>>

\* A file that parses: two data rows read past an invalid row.
KgenParsesTwoRows ==
  /\ kgenResult # Null
  /\ ~IsThrown(kgenResult)
  /\ Len(kgenResult.entries) = 2
  /\ ColumnHeaderAt # 0
  /\ Len(SubSeq(outputkgen, ColumnHeaderAt + 1, Len(outputkgen))) > 2

(***************************************************************************)
(* Claims about the rotation rows of parseStruct.                          *)
(***************************************************************************)
\* The signed single digits a character string spells, in order: a minus
\* sign belongs to the digit after it.
RECURSIVE SignedDigits(_, _)
SignedDigits(str, p) ==
  IF p > Len(str) THEN <<>>
  ELSE IF str[p] = "-" /\ p < Len(str) /\ IsDigit(str[p + 1])
  THEN <<-DigitValue(str[p + 1])>> \o SignedDigits(str, p + 2)
  ELSE IF IsDigit(str[p]) THEN <<DigitValue(str[p])>> \o SignedDigits(str, p + 1)
  ELSE SignedDigits(str, p + 1)

\* The three integers of a rotation row: what its columns before the
\* translation spell.
RowDigits(line) == SignedDigits(Flatten(SubSeq(line.parts, 1, Len(line.parts) - 1)), 1)

\* The file has a header line declaring n operations and, after it, n whole
\* blocks of three rows and an index line.
BlocksAllPresent ==
  /\ ~NoSymmetryHeader
  /\ LET h == StructHeaderLine(struct)
     IN  Len(struct) >= h + 4 * struct[h].symCount

\* C11: parseStruct parses every rotation row into its three signed digits,
\* whether they are separated by whitespace or a minus sign is packed
\* against the digit before it; for a file whose operation blocks are all
\* present the number of returned operations is the declared count.
C11_EveryRotationRowParsed ==
  (structResult # Null /\ BlocksAllPresent) =>
    LET h == StructHeaderLine(struct)
    IN  /\ Len(structResult.symmetryOps) = struct[h].symCount
        /\ \A s \in 1..Len(structResult.symmetryOps) : \A row \in 1..3 :
             structResult.symmetryOps[s].rotation[row] = RowDigits(struct[h + 4 * (s - 1) + row])

\* The operations whose rows are parsed are returned with the rows' digits;
\* a block is returned exactly when each of its rows has its three digits
\* in three columns or in one.
RowIsRead(line) == Len(line.parts) = 4 \/ Len(line.parts) = 2
C11_SpacedAndDenseRowsParsed ==
  (structResult # Null /\ BlocksAllPresent) =>
    LET h == StructHeaderLine(struct)
        read == { s \in 1..struct[h].symCount :
                    \A row \in 1..3 : RowIsRead(struct[h + 4 * (s - 1) + row]) }
    IN  /\ Len(structResult.symmetryOps) = Cardinality(read)
        /\ (read = 1..struct[h].symCount =>
              \A s \in read : \A row \in 1..3 :
                structResult.symmetryOps[s].rotation[row]
                  = RowDigits(struct[h + 4 * (s - 1) + row]))

\* A file declaring one operation whose block " 1 0 0", " 0-1 0", " 0 0-1"
\* is whole: parseStruct returns no operation.
C11_Witness ==
  /\ structResult # Null
  /\ BlocksAllPresent
  /\ struct[StructHeaderLine(struct)].symCount = 1
  /\ \E row \in 1..3 : Len(struct[StructHeaderLine(struct) + row].parts) = 3
  /\ structResult.symmetryOps = <<>>

(***************************************************************************)
(* Claims about buildWien2kBandGrid.                                       *)
(***************************************************************************)
BandGridBuilt == gridPc = "built" /\ bandGrid # Null /\ ~IsThrown(bandGrid)

\* The listing rows the grid is built from: the first nx * ny * nz valid
\* rows after the column header, as <<point, x, y, z, relation>>.
ListedRows ==
  LET rows == ValidRowsAfter(ColumnHeaderAt)
      n == bandGrid.grid.nx * bandGrid.grid.ny * bandGrid.grid.nz
  IN  [i \in 1..n |-> rows[i].nums]
RelationOf(i) == ListedRows[i][5]
FlatIndexOf(i) ==
  ListedRows[i][2] + ListedRows[i][3] * bandGrid.grid.nx
    + ListedRows[i][4] * bandGrid.grid.nx * bandGrid.grid.ny
IsSelfRelated(i) == i \in 1..Len(ListedRows) /\ RelationOf(i) = i

\* The 1-based position of the self-related row r among the self-related rows.
SequentialPosition(r) == Cardinality({ j \in 1..r : IsSelfRelated(j) })

\* The canonical representative of row i by the lookup over at most two
\* levels of the relation table; 0 when that reaches no self-related row.
CanonicalOf(i) ==
  LET r == RelationOf(i)
  IN  IF IsSelfRelated(r) THEN r
      ELSE IF r \in 1..Len(ListedRows) /\ IsSelfRelated(RelationOf(r)) THEN RelationOf(r)
      ELSE 0

\* The cell of row i holds, in every band, the energies listed for the
\* k-point numbered p (as a Float32Array holds them).
CellHoldsEnergiesOf(i, p) ==
  /\ FlatIndexOf(i) \in 0..(Len(ListedRows) - 1)
  /\ p \in 1..Len(bandGrid.energiesByKPoint)
  /\ \A b \in 1..bandGrid.numBands :
       bandGrid.grid.data[b][FlatIndexOf(i) + 1] = Fround(bandGrid.energiesByKPoint[p][b])

RowIsFillable(i) ==
  /\ IsSelfRelated(RelationOf(i))
  /\ SequentialPosition(RelationOf(i)) <= Len(bandGrid.energiesByKPoint)
  /\ FlatIndexOf(i) \in 0..(Len(ListedRows) - 1)
  /\ \A j \in (i + 1)..Len(ListedRows) : FlatIndexOf(j) # FlatIndexOf(i)

BuildDone == buildArgs # Null /\ builtGrid # Null

\* The bands of the built grid: bandIndices, or all bands of the first point.
BuiltBands ==
  IF Len(buildArgs.bandIndices) > 0 THEN buildArgs.bandIndices
  ELSE [i \in 1..(IF Len(buildArgs.expandedKPoints) > 0
                  THEN Len(buildArgs.expandedKPoints[1].energies) ELSE 0) |-> i - 1]

BuiltCells == 0..(buildArgs.gridSize * buildArgs.gridSize * buildArgs.gridSize - 1)

\* The indices (ix, iy, iz) of the cell with flat index n.
CellOf(n) ==
  << n % buildArgs.gridSize, (n \div buildArgs.gridSize) % buildArgs.gridSize,
     n \div (buildArgs.gridSize * buildArgs.gridSize) >>

\* The 8 corner offsets (dx, dy, dz), dx fastest.
CornerOffsets == [c \in 1..8 |-> << (c - 1) % 2, ((c - 1) \div 2) % 2, (c - 1) \div 4 >>]

\* The cell ix sits at ix * S / g lookup steps from the zone edge: the lower
\* node, and the part of a step beyond it as a numerator over g.
StepsBelow(i) == (i * buildArgs.sourceGridSize) \div buildArgs.gridSize
StepPart(i) == (i * buildArgs.sourceGridSize) % buildArgs.gridSize

\* The lookup node of corner c of a cell, wrapped on each axis.
CornerNode(cell, c) ==
  [a \in 1..3 |-> (StepsBelow(cell[a]) + CornerOffsets[c][a]) % buildArgs.sourceGridSize]

\* The trilinear weight of corner c, as a numerator over g^3.
AxisWeight(i, d) == IF d = 1 THEN StepPart(i) ELSE buildArgs.gridSize - StepPart(i)
CornerWeight(cell, c) ==
  AxisWeight(cell[1], CornerOffsets[c][1]) * AxisWeight(cell[2], CornerOffsets[c][2])
    * AxisWeight(cell[3], CornerOffsets[c][3])

\* The expanded point the lookup map holds at a node: the first with its key.
PointsAt(node) ==
  { i \in 1..Len(buildArgs.expandedKPoints) :
      kPointToGridKey(buildArgs.expandedKPoints[i].kx, buildArgs.expandedKPoints[i].ky,
                      buildArgs.expandedKPoints[i].kz, One, buildArgs.sourceGridSize) = node }
PointAt(node) ==
  IF PointsAt(node) = {} THEN Null
  ELSE buildArgs.expandedKPoints[CHOOSE i \in PointsAt(node) : \A j \in PointsAt(node) : i <= j]

HasBand(kp, band) == kp # Null /\ band >= 0 /\ band < Len(kp.energies)

\* The periodic squared distance of expanded point i from a cell, in units
\* of 1 / (2 * One * g).
AxisGap(k, i) ==
  LET d == Abs(2 * buildArgs.gridSize * k - One * (2 * i - buildArgs.gridSize))
  IN  Min2(d, 2 * One * buildArgs.gridSize - d)
CellDistance(i, cell) ==
  AxisGap(buildArgs.expandedKPoints[i].kx, cell[1]) * AxisGap(buildArgs.expandedKPoints[i].kx, cell[1])
  + AxisGap(buildArgs.expandedKPoints[i].ky, cell[2]) * AxisGap(buildArgs.expandedKPoints[i].ky, cell[2])
  + AxisGap(buildArgs.expandedKPoints[i].kz, cell[3]) * AxisGap(buildArgs.expandedKPoints[i].kz, cell[3])
NearestPoint(cell) ==
  IF Len(buildArgs.expandedKPoints) = 0 THEN Null
  ELSE buildArgs.expandedKPoints[
         CHOOSE i \in 1..Len(buildArgs.expandedKPoints) :
           /\ \A j \in 1..Len(buildArgs.expandedKPoints) : CellDistance(i, cell) <= CellDistance(j, cell)
           /\ \A j \in 1..(i - 1) : CellDistance(j, cell) > CellDistance(i, cell)]

\* The corners of a cell that the sums run over, and the two sums.
PresentCorners(cell) == { c \in 1..8 : PointAt(CornerNode(cell, c)) # Null }
CountedCorners(cell, band) == { c \in 1..8 : HasBand(PointAt(CornerNode(cell, c)), band) }
WeightSum(cell, cs) == SumOf([c \in 1..8 |-> IF c \in cs THEN CornerWeight(cell, c) ELSE 0])
EnergySum(cell, cs, band) ==
  SumOf([c \in 1..8 |->
           IF c \in cs
           THEN PointAt(CornerNode(cell, c)).energies[band + 1] * CornerWeight(cell, c) ELSE 0])

\* A cell that coincides with a lookup node holding a point with the band
\* holds that point's energy, as stored in single precision.
OnNode(cell) == \A a \in 1..3 : StepPart(cell[a]) = 0
NodeCellsExact ==
  \A n \in BuiltCells : \A b \in 1..Len(BuiltBands) :
    (OnNode(CellOf(n)) /\ HasBand(PointAt(CornerNode(CellOf(n), 1)), BuiltBands[b]))
      => builtGrid.data[b][n + 1]
           = Fround(PointAt(CornerNode(CellOf(n), 1)).energies[BuiltBands[b] + 1])

\* C13 as stated: every cell holds the weighted mean over the corners
\* present in the lookup map, the nearest point's energy when no corner is
\* present, and a cell on a node holding a point holds that point's energy
\* (stores are in single precision; a present corner or a nearest point
\* without the band, and an empty point list, are left out of account).
C13_MeanOverPresentCorners ==
  BuildDone =>
    /\ \A n \in BuiltCells : \A b \in 1..Len(BuiltBands) :
         LET cell == CellOf(n)
             band == BuiltBands[b]
             present == PresentCorners(cell)
         IN  IF present # {}
             THEN (\A c \in present : HasBand(PointAt(CornerNode(cell, c)), band))
                    => /\ WeightSum(cell, present) > 0
                       /\ builtGrid.data[b][n + 1]
                            = FroundRatio(EnergySum(cell, present, band), WeightSum(cell, present))
             ELSE HasBand(NearestPoint(cell), band)
                    => builtGrid.data[b][n + 1] = Fround(NearestPoint(cell).energies[band + 1])
    /\ NodeCellsExact

\* C13, amended: the sums run over the corners that are present and carry
\* the band; when their weights sum to zero (no such corner, or only
\* corners of weight zero) the cell holds the energy of the nearest
\* expanded point by periodic Euclidean distance, and stays 0 when there is
\* no such point or it lacks the band; stores are in single precision.
C13_MeanOverCountedCorners ==
  BuildDone =>
    /\ \A n \in BuiltCells : \A b \in 1..Len(BuiltBands) :
         LET cell == CellOf(n)
             band == BuiltBands[b]
             counted == CountedCorners(cell, band)
         IN  builtGrid.data[b][n + 1]
               = IF WeightSum(cell, counted) > 0
                 THEN FroundRatio(EnergySum(cell, counted, band), WeightSum(cell, counted))
                 ELSE IF HasBand(NearestPoint(cell), band)
                 THEN Fround(NearestPoint(cell).energies[band + 1])
                 ELSE 0
    /\ NodeCellsExact

\* A grid with a cell strictly between nodes whose counted corners hold
\* different energies, and a cell whose only present corners weigh zero and
\* which holds the nearest point's non-zero energy.
C13_Witness ==
  /\ BuildDone
  /\ \E n \in BuiltCells : \E b \in 1..Len(BuiltBands) :
       LET counted == CountedCorners(CellOf(n), BuiltBands[b])
       IN  /\ ~OnNode(CellOf(n))
           /\ \E c, d \in counted :
                /\ CornerWeight(CellOf(n), c) > 0
                /\ CornerWeight(CellOf(n), d) > 0
                /\ PointAt(CornerNode(CellOf(n), c)).energies[BuiltBands[b] + 1]
                     # PointAt(CornerNode(CellOf(n), d)).energies[BuiltBands[b] + 1]
           /\ builtGrid.data[b][n + 1] # 0
  /\ \E n \in BuiltCells : \E b \in 1..Len(BuiltBands) :
       /\ PresentCorners(CellOf(n)) # {}
       /\ WeightSum(CellOf(n), CountedCorners(CellOf(n), BuiltBands[b])) = 0
       /\ builtGrid.data[b][n + 1] # 0

(***************************************************************************)
(* Claims about sampleGridEnergy.                                          *)
(***************************************************************************)
SampleDone == sampleArgs # Null /\ sampleOut # Null

\* The query is the lattice node i of an axis with n cells: k = i / n - 0.5.
NodeOn(kn, n, i) == i \in 0..(n - 1) /\ kn * 2 * n = QueryDen * (2 * i - n)
QueryIsNode(ix, iy, iz) ==
  /\ NodeOn(sampleArgs.kx, sampleArgs.grid.nx, ix)
  /\ NodeOn(sampleArgs.ky, sampleArgs.grid.ny, iy)
  /\ NodeOn(sampleArgs.kz, sampleArgs.grid.nz, iz)

CubeDone == cubeArgs # Null /\ cubeOut # Null

\* C15: the 8 trilinear weights of findInterpolationCube are each in [0, 1]
\* and sum to 1, for every query point and every grid size.
C15_WeightsInUnitIntervalSumToOne ==
  CubeDone =>
    /\ DOMAIN cubeOut.weights = 1..8
    /\ \A c \in 1..8 : cubeOut.weights[c] >= 0 /\ cubeOut.weights[c] <= cubeOut.weightDen
    /\ SumOf(cubeOut.weights) = cubeOut.weightDen

\* A query below the zone on every axis and strictly inside a lookup cell:
\* all 8 weights are positive.
C15_Witness ==
  /\ CubeDone
  /\ cubeArgs.kx < -(QueryDen \div 2)
  /\ cubeArgs.ky < -(QueryDen \div 2)
  /\ cubeArgs.kz < -(QueryDen \div 2)
  /\ cubeArgs.gridSize > 1
  /\ \A c \in 1..8 : cubeOut.weights[c] > 0

(***************************************************************************)
(* Claims about parseOutput1.                                              *)
(***************************************************************************)
Output1Parsed == gridPc \in {"parsed", "done"} /\ output1Data # Null

\* The number of energies each K= block of the listing contributes: the
\* values on the lines of the block after EIGENVALUES ARE and before
\* EIGENVALUES BELOW.  counts is the list so far, open tells whether a block
\* has begun, reading whether its eigenvalue lines are being read.
RECURSIVE BlockCounts(_, _, _, _, _)
BlockCounts(lines, p, counts, open, reading) ==
  IF p > Len(lines) THEN counts
  ELSE IF lines[p].kind = "K" THEN BlockCounts(lines, p + 1, Append(counts, 0), TRUE, FALSE)
  ELSE IF lines[p].kind = "are" THEN BlockCounts(lines, p + 1, counts, open, TRUE)
  ELSE IF lines[p].kind = "below" THEN BlockCounts(lines, p + 1, counts, open, FALSE)
  ELSE IF open /\ reading
  THEN BlockCounts(lines, p + 1,
                   [counts EXCEPT ![Len(counts)] = counts[Len(counts)] + Len(lines[p].values)],
                   open, reading)
  ELSE BlockCounts(lines, p + 1, counts, open, reading)

ListedCounts == BlockCounts(output1, 1, <<>>, FALSE, FALSE)
SmallestOf(counts) ==
  IF Len(counts) = 0 THEN 0
  ELSE CHOOSE m \in 0..SumOf(counts) :
         /\ \E n \in 1..Len(counts) : counts[n] = m
         /\ \A n \in 1..Len(counts) : m <= counts[n]
RowsRectangular ==
  \A n \in 1..Len(output1Data.energiesByKPoint) :
    Len(output1Data.energiesByKPoint[n]) = output1Data.numBands

\* C16 as stated: numBands is the minimum number of energies collected over
\* all K= blocks of the listing, and every row of energiesByKPoint has
\* exactly numBands entries.
C16_NumBandsIsMinimumOverBlocks ==
  Output1Parsed =>
    /\ output1Data.numBands = SmallestOf(ListedCounts)
    /\ RowsRectangular

\* C16, amended: the minimum is over the K= blocks that contribute at least
\* one energy; energiesByKPoint has one row per such block, in listing
\* order, each the first numBands energies of the block.
NonEmptyCounts == SelectSeq(ListedCounts, LAMBDA c : c > 0)
C16_NumBandsIsMinimumOverNonEmptyBlocks ==
  Output1Parsed =>
    /\ output1Data.numBands = SmallestOf(NonEmptyCounts)
    /\ Len(output1Data.energiesByKPoint) = Len(NonEmptyCounts)
    /\ RowsRectangular

\* A parsed listing whose blocks contribute different numbers of energies,
\* so that a row was cut.
C16_Witness ==
  /\ Output1Parsed
  /\ output1Data.numBands > 0
  /\ \E n \in 1..Len(NonEmptyCounts) : NonEmptyCounts[n] > output1Data.numBands

(***************************************************************************)
(* Claims about the band count of parseWien2kFermiData.                    *)
(***************************************************************************)
GenericParsed == genericPc \in {"parsed", "done"} /\ rawData # Null

\* C17: in the result of parseWien2kFermiData a band-count mismatch across
\* k-points is truncated to the minimum: numBands is the minimum number of
\* energies over all k-points and every k-point has exactly numBands
\* energies.
C17_TruncatedToMinimum ==
  GenericParsed =>
    /\ \A n \in 1..Len(rawData.kPoints) : Len(rawData.kPoints[n].energies) = rawData.numBands
    /\ Len(rawData.kPoints) > 0
         => \E n \in 1..Len(rawData.kPoints) : Len(rawData.kPoints[n].energies) = rawData.numBands

\* What the code returns instead: the energies as parseEnergy read them,
\* and the band count of the first k-point.
C17_BandCountOfFirstKPoint ==
  GenericParsed =>
    rawData.numBands
      = IF Len(rawData.kPoints) > 0 THEN Len(rawData.kPoints[1].energies) ELSE 0

\* A result whose k-points differ in their number of energies.
C17_Witness ==
  /\ GenericParsed
  /\ \E n, m \in 1..Len(rawData.kPoints) :
       Len(rawData.kPoints[n].energies) < Len(rawData.kPoints[m].energies)

(***************************************************************************)
(* Claims about parseFermiFromScf and parseFermiFromOutput2.               *)
(***************************************************************************)
\* The :FER-tagged lines of a content, and the value the last of them holds
\* converted to eV (NaN stays NaN).
TaggedLines(content) == { p \in 1..Len(content) : content[p].kind = "fer" }
LastTagged(content) == CHOOSE p \in TaggedLines(content) : \A q \in TaggedLines(content) : q <= p
FermiOf(content) ==
  IF TaggedLines(content) = {} THEN 0
  ELSE IF content[LastTagged(content)].value = NaN THEN NaN
  ELSE content[LastTagged(content)].value * RY_TO_EV

\* C18: parseFermiFromScf and parseFermiFromOutput2 return the value of the
\* last :FER-tagged line times RY_TO_EV, however many tagged lines precede
\* it, and 0 (no error) for a content without tagged line.
C18_LastTaggedValueInEv ==
  /\ fermiFromScf # <<>> => fermiFromScf = <<FermiOf(fermiArgs.scf)>>
  /\ fermiFromOutput2 # <<>> => fermiFromOutput2 = <<FermiOf(fermiArgs.output2)>>

\* Both were called on contents with several tagged lines of which the last
\* holds a value other than the first, and returned different energies.
C18_Witness ==
  /\ fermiFromScf # <<>> /\ fermiFromOutput2 # <<>>
  /\ Cardinality(TaggedLines(fermiArgs.scf)) >= 2
  /\ \E p \in TaggedLines(fermiArgs.scf) :
       fermiArgs.scf[p].value # fermiArgs.scf[LastTagged(fermiArgs.scf)].value
  /\ fermiFromScf[1] # 0 /\ fermiFromScf[1] # NaN
  /\ fermiFromOutput2[1] # fermiFromScf[1]

\* Both were called on a content without tagged line and returned 0.
C18_NoTagWitness ==
  /\ fermiArgs # Null
  /\ fermiArgs.scf # <<>> /\ TaggedLines(fermiArgs.scf) = {}
  /\ fermiFromScf = <<0>> /\ fermiFromOutput2 = <<0>>

(***************************************************************************)
(* Claims about parseKlist.                                                *)
(***************************************************************************)
\* The records of the k-list: its lines of at least six fields.
KlistRecords == { p \in 1..Len(klist) : Len(klist[p].parts) >= 6 }
FieldsParse(p, fields) == \A f \in fields : ParseInt(klist[p].parts[f]) # NaN
WeightParses(p) == ParseFloat(klist[p].parts[6]) # NaN

\* The records of which all of the given fields and the weight parse, in
\* file order.
RECURSIVE KeptFrom(_, _)
KeptFrom(p, fields) ==
  IF p > Len(klist) THEN <<>>
  ELSE (IF p \in KlistRecords /\ FieldsParse(p, fields) /\ WeightParses(p) THEN <<p>> ELSE <<>>)
       \o KeptFrom(p + 1, fields)

\* The k-point n of the result is the record p: kx = (kx*d)/d and so on.
IsRecord(n, p) ==
  /\ rawData.kPoints[n].kx = Quotient(ParseInt(klist[p].parts[2]), ParseInt(klist[p].parts[5]))
  /\ rawData.kPoints[n].ky = Quotient(ParseInt(klist[p].parts[3]), ParseInt(klist[p].parts[5]))
  /\ rawData.kPoints[n].kz = Quotient(ParseInt(klist[p].parts[4]), ParseInt(klist[p].parts[5]))
KPointsAre(kept) ==
  /\ Len(rawData.kPoints) = Len(kept)
  /\ \A n \in 1..Len(kept) : IsRecord(n, kept[n])
CoordinatesFinite ==
  \A n \in 1..Len(rawData.kPoints) :
    /\ IsFinite(rawData.kPoints[n].kx)
    /\ IsFinite(rawData.kPoints[n].ky)
    /\ IsFinite(rawData.kPoints[n].kz)

\* C19: parseKlist skips every record whose fields index, kx*d, ky*d, kz*d,
\* d and weight are not all parseable, returns kx = (kx*d)/d, ky = (ky*d)/d,
\* kz = (kz*d)/d for the records it keeps, in file order, and every returned
\* coordinate is finite.
C19_UnparseableRecordsSkipped ==
  GenericParsed => KPointsAre(KeptFrom(1, 1..5)) /\ CoordinatesFinite

\* What the code does: only index, kx*d, d and the weight decide.
C19_FourFieldsDecide ==
  GenericParsed => KPointsAre(KeptFrom(1, {1, 2, 5}))

\* A k-list with a whole record after a record whose ky*d is a word: the
\* result holds both.
C19_Witness ==
  /\ GenericParsed
  /\ Len(rawData.kPoints) >= 2
  /\ \E p \in KlistRecords :
       /\ FieldsParse(p, {1, 2, 5}) /\ WeightParses(p)
       /\ ParseInt(klist[p].parts[3]) = NaN
       /\ \E q \in KlistRecords : q > p /\ FieldsParse(q, 1..5) /\ WeightParses(q)
  /\ \E n \in 1..Len(rawData.kPoints) : rawData.kPoints[n].ky = NaN

(***************************************************************************)
(* Claims about the layout of every EnergyGrid.                            *)
(***************************************************************************)
\* Every band of g is an array of nx * ny * nz cells.
ArraysFull(g) ==
  \A b \in 1..Len(g.data) : DOMAIN g.data[b] = 1..(g.nx * g.ny * g.nz)

\* The cells of g and the flat index of a cell.
CellsOf(g) == (0..(g.nx - 1)) \X (0..(g.ny - 1)) \X (0..(g.nz - 1))
FlatIndex(g, cell) == cell[1] + cell[2] * g.nx + cell[3] * g.nx * g.ny

\* The flat indices of the cells of g are the indices of its arrays, each
\* the index of one cell.
IndicesInside(g) ==
  /\ \A cell \in CellsOf(g) : FlatIndex(g, cell) \in 0..(g.nx * g.ny * g.nz - 1)
  /\ \A c, d \in CellsOf(g) : FlatIndex(g, c) = FlatIndex(g, d) => c = d

\* The value buildEnergyGrid computes for a cell and a band.
MeanOrNearest(cell, band) ==
  IF WeightSum(cell, CountedCorners(cell, band)) > 0
  THEN FroundRatio(EnergySum(cell, CountedCorners(cell, band), band),
                   WeightSum(cell, CountedCorners(cell, band)))
  ELSE IF HasBand(NearestPoint(cell), band) THEN Fround(NearestPoint(cell).energies[band + 1])
  ELSE 0

BuiltGridLayout ==
  BuildDone =>
    /\ builtGrid.nx = buildArgs.gridSize /\ builtGrid.ny = buildArgs.gridSize
    /\ builtGrid.nz = buildArgs.gridSize
    /\ Len(builtGrid.data) = Len(BuiltBands)
    /\ ArraysFull(builtGrid) /\ IndicesInside(builtGrid)
    /\ \A cell \in CellsOf(builtGrid) : \A b \in 1..Len(BuiltBands) :
         builtGrid.data[b][FlatIndex(builtGrid, cell) + 1] = MeanOrNearest(cell, BuiltBands[b])

\* A listing row whose coordinates are a cell of the mesh.
RowCell(i) == << ListedRows[i][2], ListedRows[i][3], ListedRows[i][4] >>
BandGridLayout ==
  BandGridBuilt =>
    /\ Len(bandGrid.grid.data) = bandGrid.numBands
    /\ ArraysFull(bandGrid.grid) /\ IndicesInside(bandGrid.grid)
    /\ \A i \in 1..Len(ListedRows) :
         (RowCell(i) \in CellsOf(bandGrid.grid) /\ RowIsFillable(i)) =>
           \A b \in 1..bandGrid.numBands :
             bandGrid.grid.data[b][FlatIndex(bandGrid.grid, RowCell(i)) + 1]
               = Fround(bandGrid.energiesByKPoint[SequentialPosition(RelationOf(i))][b])

\* after is shiftToFermiLevel(before): same dimensions, every cell at the
\* index it had.
ShiftKeepsLayout(before, after) ==
  /\ after.nx = before.nx /\ after.ny = before.ny /\ after.nz = before.nz
  /\ Len(after.data) = Len(before.data)
  /\ ArraysFull(after) /\ IndicesInside(after)
  /\ \A cell \in CellsOf(after) : \A b \in 1..Len(after.data) :
       after.data[b][FlatIndex(after, cell) + 1]
         = Fround(before.data[b][FlatIndex(before, cell) + 1] - before.fermiEnergy)
ShiftedGridLayout ==
  /\ shiftPc \in {"once", "twice"} => ShiftKeepsLayout(grid, shifted)
  /\ shiftPc = "twice" => ShiftKeepsLayout(shifted, shifted2)

\* C20: every EnergyGrid produced by buildEnergyGrid, buildWien2kBandGrid or
\* shiftToFermiLevel has per-band arrays of exactly nx * ny * nz cells, and
\* the value of the cell (ix, iy, iz) is stored at the flat index
\* ix + iy * nx + iz * nx * ny, which is inside the array.
C20_ArraysFullAndCellsAtFlatIndex == BuiltGridLayout /\ BandGridLayout /\ ShiftedGridLayout

\* A 2 x 2 x 1 grid of buildWien2kBandGrid with two bands whose cell
\* (1, 1, 0), at flat index 3, holds a non-zero energy that the cell (0, 1, 0)
\* does not hold.
C20_Witness ==
  /\ BandGridBuilt
  /\ bandGrid.grid.nx = 2 /\ bandGrid.grid.ny = 2 /\ bandGrid.grid.nz = 1
  /\ bandGrid.numBands = 2
  /\ \E i \in 1..Len(ListedRows) : RowCell(i) = <<1, 1, 0>> /\ RowIsFillable(i)
  /\ bandGrid.grid.data[1][4] # 0
  /\ bandGrid.grid.data[1][4] # bandGrid.grid.data[1][3]

\* A grid of buildEnergyGrid with 3 x 3 x 3 cells whose last cell differs
\* from its first, and a grid shifted twice with more than one cell.
C20_BuiltWitness ==
  /\ BuildDone /\ builtGrid.nx = 3 /\ Len(builtGrid.data) = 2
  /\ builtGrid.data[1][27] # builtGrid.data[1][1]
C20_ShiftedWitness ==
  /\ shiftPc = "twice" /\ Len(shifted2.data) >= 1
  /\ shifted2.nx * shifted2.ny * shifted2.nz > 1
  /\ shifted.data[1][2] # grid.data[1][2]

(***************************************************************************)
(* Claims about the lookup map of the expanded k-points.                   *)
(***************************************************************************)
LookupDone == lookupArgs # Null /\ lookupOut # Null

\* round((k + 0.5) * gridSize) mod gridSize for k = kn / One, from the
\* interval the product lies in.
KeyIndexOf(kn, gridSize) ==
  LET scaled == (2 * kn + One) * gridSize
      rounded == CHOOSE r \in 0..gridSize : 2 * One * r - One <= scaled /\ scaled < 2 * One * r + One
  IN  rounded % gridSize

KeyOfPoint(kp, gridSize) ==
  <<KeyIndexOf(kp.kx, gridSize), KeyIndexOf(kp.ky, gridSize), KeyIndexOf(kp.kz, gridSize)>>

InsideZone(kp) == \A k \in {kp.kx, kp.ky, kp.kz} : -Half <= k /\ k < Half

\* C25: buildKPointLookupMap maps each grid key to the first expanded point,
\* in input order, that has the key (a later point with the same key never
\* replaces it), and the three indices of the key of a point with coordinates
\* in [-0.5, 0.5) lie in [0, gridSize).
C25_FirstPointOfEachKeyKept ==
  LookupDone =>
    LET kps == lookupArgs.expandedKPoints
        n == lookupArgs.gridSize
    IN  /\ DOMAIN lookupOut = { KeyOfPoint(kps[i], n) : i \in 1..Len(kps) }
        /\ \A i \in 1..Len(kps) :
             LET key == KeyOfPoint(kps[i], n)
             IN  /\ (\A j \in 1..(i - 1) : KeyOfPoint(kps[j], n) # key) => lookupOut[key] = kps[i]
                 /\ InsideZone(kps[i]) => \A c \in 1..3 : key[c] \in 0..(n - 1)

\* Two different points share a key and the map was built.
C25_Witness ==
  /\ LookupDone
  /\ \E i, j \in 1..Len(lookupArgs.expandedKPoints) :
       /\ i < j
       /\ lookupArgs.expandedKPoints[i] # lookupArgs.expandedKPoints[j]
       /\ InsideZone(lookupArgs.expandedKPoints[j])
       /\ KeyOfPoint(lookupArgs.expandedKPoints[i], lookupArgs.gridSize)
            = KeyOfPoint(lookupArgs.expandedKPoints[j], lookupArgs.gridSize)
       /\ lookupArgs.gridSize > 1

(***************************************************************************)
(* Claims about the periodic read of a grid value.                         *)
(***************************************************************************)
\* The cell of the band array at the position of the indices modulo the
\* dimensions (the modulus of the integers, never negative).
CellModulo(g, band, ix, iy, iz) ==
  g.data[band + 1][(ix % g.nx) + (iy % g.ny) * g.nx + (iz % g.nz) * g.nx * g.ny + 1]

\* C26: getGridValue wraps its indices modulo the grid dimensions: for all
\* integers ix, iy, iz (negative ones included) and a, b, c the call at
\* (ix + a*nx, iy + b*ny, iz + c*nz) returns what the call at (ix, iy, iz)
\* returns, and the flat index read is always in [0, nx*ny*nz).
C26_PeriodicReadInsideArray ==
  /\ valueOut # Null =>
       /\ valueOut.idx \in 0..(valueArgs.grid.nx * valueArgs.grid.ny * valueArgs.grid.nz - 1)
       /\ valueOut.value = CellModulo(valueArgs.grid, valueArgs.bandArrayIndex,
                                      valueArgs.ix, valueArgs.iy, valueArgs.iz)
  /\ valueMoved # Null =>
       /\ valueMoved.idx \in 0..(valueArgs.grid.nx * valueArgs.grid.ny * valueArgs.grid.nz - 1)
       /\ valueMoved.value = CellModulo(valueArgs.grid, valueArgs.bandArrayIndex,
                                        valueArgs.ix, valueArgs.iy, valueArgs.iz)
  /\ (valueOut # Null /\ valueMoved # Null) => valueOut = valueMoved

\* Both calls returned, for a negative index and periods of either sign, on
\* a grid with more than one cell along each axis.
C26_Witness ==
  /\ valueOut # Null
  /\ valueMoved # Null
  /\ valueArgs.ix < 0
  /\ valueArgs.iy >= valueArgs.grid.ny
  /\ valueArgs.a < 0
  /\ valueArgs.b > 0
  /\ valueArgs.c < 0
  /\ valueArgs.grid.nx > 1 /\ valueArgs.grid.ny > 1 /\ valueArgs.grid.nz > 1

(***************************************************************************)
(* Claims about the buffers of the Fermi shift.                            *)
(***************************************************************************)
ShiftReturned == heapGrid # Null /\ heapShifted # Null

\* The addresses of the band arrays of the grid object at a reference.
BuffersOf(h, g) == { h[g.ref].data[b].ref : b \in 1..Len(h[g.ref].data) }

\* C27: shiftToFermiLevel does not modify its argument: after the call the
\* input grid's fermiEnergy and every cell of its band arrays are what they
\* were, and each band array of the returned grid is a new buffer, distinct
\* from the input's, so rawData.grid keeps the parsed Fermi energy.
C27_ArgumentUntouchedNewBuffers ==
  ShiftReturned =>
    LET before == heapGrid.before
        input == heapGrid.grid
    IN  /\ \A a \in 1..Len(before) : heap[a] = before[a]
        /\ heap[input.ref].fermiEnergy = before[input.ref].fermiEnergy
        /\ heapShifted # input
        /\ BuffersOf(heap, heapShifted) \cap BuffersOf(before, input) = {}
        /\ \A a \in BuffersOf(heap, heapShifted) : a > Len(before)
        /\ Cardinality(BuffersOf(heap, heapShifted)) = Len(before[input.ref].data)

\* A grid with a band array and a Fermi energy other than 0 was shifted: the
\* returned cells differ from the argument's.
C27_Witness ==
  /\ ShiftReturned
  /\ heap[heapGrid.grid.ref].fermiEnergy = F32Step
  /\ Len(heap[heapGrid.grid.ref].data) = MaxBands
  /\ heap[heapShifted.ref].fermiEnergy = 0
  /\ \E b \in 1..MaxBands :
       heap[heap[heapShifted.ref].data[b].ref] # heap[heap[heapGrid.grid.ref].data[b].ref]

(***************************************************************************)
(* Claims about the Fermi surface page.                                    *)
(***************************************************************************)
\* The loads in flight.
LoadsInFlight == { i \in 1..Len(pending) : pending[i].call = "load" }

\* A step in which a load ends that was started for another surface than
\* the selected one.
SupersededLoadEnds ==
  \E i \in LoadsInFlight :
    /\ pending[i].selectedId # selectedId
    /\ pending' = Without(pending, i)
    /\ selectedId' = selectedId

\* C21: when the selected surface changes while the load of the previous
\* one is in flight, the result of the superseded run is discarded: it
\* writes none of rawData, energyGrid, crossingBands and enabledBands, so the
\* data shown once all loads ended are those of the latest selection.
C21_SupersededLoadWritesNothing ==
  [][SupersededLoadEnds =>
       UNCHANGED <<pageRawData, pageEnergyGrid, pageCrossingBands, enabledBands>>]_vars

\* The data of the selected surface are shown and a load started for
\* another surface is still in flight.
C21_Witness ==
  /\ selectedId # NoId
  /\ pageRawData # Null
  /\ pageRawData.caseName = CaseName(selectedId)
  /\ LoadsInFlight # {}
  /\ \A i \in LoadsInFlight :
       pending[i].selectedId # selectedId /\ stored[pending[i].selectedId].held

\* A step in which the enabled bands change and no call ends: a click on a
\* band's checkbox.
BandToggled == enabledBands' # enabledBands /\ Len(pending') >= Len(pending)

\* The bands of the band selector.
OfferedBands == { pageCrossingBands[i] : i \in 1..Len(pageCrossingBands) }

\* C22: toggling a band changes only the set of enabled bands and the
\* meshes derived from it: selectedId, rawData, the shifted energyGrid and
\* crossingBands stay what they were, and no file is loaded or parsed, no
\* grid built and no Fermi shift made again (no call is started).
C22_ToggleChangesEnabledBandsOnly ==
  [][BandToggled =>
       /\ UNCHANGED <<selectedId, pageRawData, pageEnergyGrid, pageCrossingBands, pending,
                      fermiSurfaces, isProcessing, error>>
       /\ \E b \in OfferedBands :
            /\ enabledBands' \ {b} = enabledBands \ {b}
            /\ (b \in enabledBands') # (b \in enabledBands)
            /\ MarchingCubesBands' \ {b} = MarchingCubesBands \ {b}]_vars

\* One of two enabled bands was switched off and on again while the grid is
\* shown: the other band is enabled throughout.
C22_Witness ==
  /\ pageEnergyGrid # Null
  /\ Len(pageCrossingBands) = 2
  /\ Cardinality(enabledBands) = 1
  /\ MarchingCubesBands = enabledBands

\* The load at position i of the calls in flight ends in this step: the
\* other calls stay in flight in their order, followed by what the step
\* starts, if it starts a call.
LoadEnds(i) ==
  /\ i \in LoadsInFlight
  /\ pending' # pending
  /\ Len(pending') \in {Len(pending) - 1, Len(pending)}
  /\ \A j \in 1..(Len(pending) - 1) : pending'[j] = (IF j < i THEN pending[j] ELSE pending[j + 1])

\* The surface of a load cannot be loaded: the backend does not hold it, or
\* its case.outputkgen has no mesh (every fourth surface).
CannotLoad(i) ==
  \/ ~stored[pending[i].selectedId].held
  \/ pending[i].selectedId % 4 = 0

\* String(err) of what a load fails with.
FailureMessages ==
  { [string |-> <<"Error: ", "Failed to parse mesh dimensions from outputkgen.">>],
    [string |-> <<"load failed">>] }

\* C23: when loading or parsing the selected surface fails, the failure is
\* terminal and surfaced: error is set to the failure message, the load is
\* not retried (the step starts no call), and isProcessing returns to false.
C23_FailedLoadSurfacedNotRetried ==
  [][\A i \in 1..Len(pending) :
       LoadEnds(i) =>
         /\ isProcessing' = FALSE
         /\ Len(pending') = Len(pending) - 1
         /\ \/ /\ error' \in FailureMessages
               /\ UNCHANGED <<pageRawData, pageEnergyGrid, pageCrossingBands, enabledBands,
                              selectedId, fermiSurfaces>>
            \/ /\ ~CannotLoad(i)
               /\ error' = error
               /\ pageRawData' # Null
               /\ pageEnergyGrid' # Null]_vars

\* The load of the selected surface failed at parsing and nothing is in
\* flight: the message is shown and the page is not processing.
C23_Witness ==
  /\ pending = <<>>
  /\ selectedId # NoId
  /\ selectedId % 4 = 0
  /\ error = [string |-> <<"Error: ", "Failed to parse mesh dimensions from outputkgen.">>]
  /\ ~isProcessing

\* The energies of a band (0-based) in the table of the loaded data.
LoadedEnergies(b) ==
  { pageRawData.energiesByKPoint[k][b + 1] : k \in 1..Len(pageRawData.energiesByKPoint) }

\* The band has an energy above and an energy below the Fermi energy of the
\* loaded data.
LoadedBandCrosses(b) ==
  /\ \E e \in LoadedEnergies(b) : e > pageRawData.grid.fermiEnergy
  /\ \E e \in LoadedEnergies(b) : e < pageRawData.grid.fermiEnergy

\* The grid shown belongs to the loaded data: same mesh, same bands, one
\* set with the other.
GridOfLoadedData ==
  /\ (pageEnergyGrid = Null) = (pageRawData = Null)
  /\ pageEnergyGrid # Null =>
       /\ <<pageEnergyGrid.nx, pageEnergyGrid.ny, pageEnergyGrid.nz>>
            = <<pageRawData.grid.nx, pageRawData.grid.ny, pageRawData.grid.nz>>
       /\ Len(pageEnergyGrid.data) = pageRawData.numBands

\* C24: marchingCubes is invoked only for bands flagged as crossing for the
\* grid currently loaded, so a band that lies entirely above or entirely
\* below the Fermi energy never yields a mesh.
C24_MeshesOnlyForCrossingBands ==
  /\ GridOfLoadedData
  /\ \A b \in MarchingCubesBands :
       /\ b \in OfferedBands
       /\ LoadedBandCrosses(b)

\* A grid is shown with a band that lies entirely above the Fermi energy;
\* marchingCubes is invoked for the other band only.
C24_Witness ==
  /\ pageEnergyGrid # Null
  /\ MarchingCubesBands = {0}
  /\ \A e \in LoadedEnergies(1) : e > pageRawData.grid.fermiEnergy
  /\ pending = <<>>

\* The ids of the listed surfaces.
ListedIds == { fermiSurfaces[i].id : i \in 1..Len(fermiSurfaces) }

\* C28: after any sequence of selections, imports and deletions, overlapping
\* deletions included, once no call is in flight selectedId is null or the
\* id of a surface that is still in fermiSurfaces.
C28_SelectionIsListed ==
  pending = <<>> => (selectedId = NoId \/ selectedId \in ListedIds)

\* Two deletions were started and ended, nothing is in flight, and the
\* selected surface is not listed.
C28_Witness ==
  /\ pending = <<>>
  /\ started = 2
  /\ fermiSurfaces = <<>>
  /\ selectedId # NoId
  /\ \A id \in 1..Len(stored) : ~stored[id].held

\* The imports and loads in flight.
ProcessingCalls == { i \in 1..Len(pending) : pending[i].call \in {"import", "load"} }

\* C29: isProcessing is true whenever an import or a surface load is in
\* flight, under every interleaving; it becomes false only when none is in
\* flight.
C29_ProcessingWhileInFlight == ProcessingCalls # {} => isProcessing

\* A load ended while the load of the selected surface is in flight: the
\* page does not show that it is processing.
C29_Witness ==
  /\ ~isProcessing
  /\ \E i \in LoadsInFlight : pending[i].selectedId = selectedId
  /\ error = Null

\* The surface whose files the loaded data were parsed from: its number is
\* in the level of the second band at the second k-point.
LoadedSurface == (pageRawData.energiesByKPoint[2][2] \div RY_TO_EV) - 2

\* C30: a failed load leaves no stale data: after the load of a newly
\* selected surface failed, rawData, energyGrid and crossingBands do not
\* hold the data of the surface selected before; whenever no load is in
\* flight and energyGrid is not null, it was built from the surface that
\* selectedId identifies.
C30_GridIsOfSelectedSurface ==
  (LoadsInFlight = {} /\ pageEnergyGrid # Null) =>
    /\ selectedId # NoId
    /\ pageRawData # Null
    /\ LoadedSurface = selectedId

\* After one click, on another surface, whose load failed: nothing is in
\* flight, the failure is shown, and the grid and the crossing bands are
\* those of the surface selected before.
C30_Witness ==
  /\ pending = <<>>
  /\ started = 1
  /\ error \in FailureMessages
  /\ selectedId # NoId
  /\ selectedId \in ListedIds
  /\ pageEnergyGrid # Null
  /\ pageCrossingBands # <<>>
  /\ LoadedSurface # selectedId

(***************************************************************************)
(* Specifications: one per part of the library, the others idle.           *)
(***************************************************************************)
InitExpand == ExpandInit /\ WrapIdle /\ ShiftIdle /\ GenericIdle /\ GridPathIdle /\ InterpIdle /\ FermiIdle
SpecExpand == InitExpand /\ [][ExpandNext]_vars

InitWrap == WrapInit /\ ExpandIdle /\ ShiftIdle /\ GenericIdle /\ GridPathIdle /\ InterpIdle /\ FermiIdle
SpecWrap == InitWrap /\ [][WrapNext]_vars

InitShift == ShiftInit /\ ExpandIdle /\ WrapIdle /\ GenericIdle /\ GridPathIdle /\ InterpIdle /\ FermiIdle
SpecShift == InitShift /\ [][ShiftNext]_vars

\* Crossing bands: either variant is run, the other is idle.
InitCrossing ==
  /\ ExpandIdle /\ WrapIdle /\ ShiftIdle /\ InterpIdle /\ FermiIdle
  /\ \/ GenericCrossingInit /\ GridPathIdle
     \/ GridCrossingInit /\ GenericIdle
SpecCrossing == InitCrossing /\ [][CrossingNext]_vars

InitStruct == GenericStructInit /\ ExpandIdle /\ WrapIdle /\ ShiftIdle /\ GridPathIdle /\ InterpIdle /\ FermiIdle
SpecStruct == InitStruct /\ [][StructNext]_vars

InitBandGrid == GridBandInit /\ ExpandIdle /\ WrapIdle /\ ShiftIdle /\ GenericIdle /\ InterpIdle /\ FermiIdle
SpecBandGrid == InitBandGrid /\ [][BandGridNext]_vars

OthersIdle == ExpandIdle /\ WrapIdle /\ ShiftIdle /\ GenericIdle /\ GridPathIdle /\ FermiIdle
InitBuild == BuildInit /\ SampleIdle /\ CubeIdle /\ OthersIdle
SpecBuild == InitBuild /\ [][BuildNext]_vars

InitSample == SampleInit /\ BuildIdle /\ CubeIdle /\ OthersIdle
SpecSample == InitSample /\ [][SampleNext]_vars

InitCube == CubeInit /\ BuildIdle /\ SampleIdle /\ OthersIdle
SpecCube == InitCube /\ [][CubeNext]_vars

InitFermi ==
  /\ FermiInit /\ ExpandIdle /\ WrapIdle /\ ShiftIdle /\ GenericIdle /\ GridPathIdle /\ InterpIdle
  /\ LookupIdle /\ ValueIdle /\ HeapIdle /\ PageIdle
SpecFermi == InitFermi /\ [][FermiNext]_vars

InitKlist == GenericKlistInit /\ ExpandIdle /\ WrapIdle /\ ShiftIdle /\ GridPathIdle /\ InterpIdle /\ FermiIdle
SpecKlist == InitKlist /\ [][KlistNext]_vars

\* The three producers of an EnergyGrid: one of them is run.
InitGrids ==
  /\ ExpandIdle /\ WrapIdle /\ GenericIdle /\ FermiIdle /\ SampleIdle /\ CubeIdle
  /\ \/ BuildInit /\ GridPathIdle /\ ShiftIdle
     \/ GridBandInit /\ BuildIdle /\ ShiftIdle
     \/ ShiftInit /\ BuildIdle /\ GridPathIdle
SpecGrids == InitGrids /\ [][GridsNext]_vars

InitOutput1 == GridOutput1Init /\ ExpandIdle /\ WrapIdle /\ ShiftIdle /\ GenericIdle /\ InterpIdle /\ FermiIdle
SpecOutput1 == InitOutput1 /\ [][Output1Next]_vars

InitLookup ==
  /\ LookupInit /\ ValueIdle /\ HeapIdle /\ PageIdle
  /\ ExpandIdle /\ WrapIdle /\ ShiftIdle /\ GenericIdle /\ GridPathIdle /\ InterpIdle
  /\ fermiArgs = Null /\ fermiFromScf = <<>> /\ fermiFromOutput2 = <<>>
SpecLookup == InitLookup /\ [][LookupNext]_vars

LateOthersIdle ==
  /\ ExpandIdle /\ WrapIdle /\ ShiftIdle /\ GenericIdle /\ GridPathIdle /\ InterpIdle
  /\ fermiArgs = Null /\ fermiFromScf = <<>> /\ fermiFromOutput2 = <<>>

InitValue == ValueInit /\ LookupIdle /\ HeapIdle /\ PageIdle /\ LateOthersIdle
SpecValue == InitValue /\ [][ValueNext]_vars

InitHeap == HeapInit /\ LookupIdle /\ ValueIdle /\ PageIdle /\ LateOthersIdle
SpecHeap == InitHeap /\ [][HeapNext]_vars

InitPage == PageInit /\ LookupIdle /\ ValueIdle /\ HeapIdle /\ LateOthersIdle
SpecPage == InitPage /\ [][PageNext]_vars

InitKgen == GridKgenInit /\ ExpandIdle /\ WrapIdle /\ ShiftIdle /\ GenericIdle /\ InterpIdle /\ FermiIdle
SpecKgen == InitKgen /\ [][KgenNext]_vars

====
